---- MODULE Spec2Model ----
(***************************************************************************)
(* A model of the link pipeline of mold (src/main.cc,                      *)
(* src/input_sections.cc).  Each part of the pipeline is a group of        *)
(* variables with its own specification; a specification leaves the        *)
(* variables of the other groups at their idle values.                     *)
(*                                                                         *)
(*   Spec         main: the stages, their tasks, barriers and checkpoints  *)
(*   SpecMerge    handle_mergeable_strings (owner election by CAS)         *)
(*   SpecIsec     set_isec_offsets (offsets of the members of a section)   *)
(*   SpecOsec     set_osec_offsets (file offsets and addresses of chunks)  *)
(*   SpecBin      bin_sections (members of the output sections)            *)
(*   SpecResolve  resolve_symbols (publication, roots, liveness, erasure)  *)
(*   SpecRead     read_input_files, read_file and the preload cache        *)
(*   SpecScan     scan_relocations, the checkpoint and slots of scan_rels   *)
(*   SpecCopy     InputSection::copy_buf (the bytes relocations write)      *)
(*   SpecPad      clear_padding (the bytes between the chunks)              *)
(*   SpecRank     get_section_rank and the sort of out::chunks by it        *)
(*   SpecLock     scan_rels: the parallel scan and the symbol mutexes      *)
(*   SpecParse    parser_tg: the parse tasks and the joins before resolution *)
(*   SpecPrio     main: the priorities of the files                         *)
(*   SpecType     get_file_type and read_file on one mapped file            *)
(*   SpecMerge2   handle_mergeable_strings, all passes                      *)
(*   SpecLayout   the layout phase: merge, bin, member offsets, chunk order   *)
(*   SpecIndex    the indices of rels that the relocation loops read       *)
(*   SpecCommit   the copy phase, its checkpoint and the commit of the file *)
(*   SpecAgree    one section scanned, its symbols given slots, and copied *)
(***************************************************************************)
EXTENDS Integers, Sequences, FiniteSets, TLC

\* All sequences over S of length 0..n.
SeqsUpTo(S, n) == UNION {[1..k -> S] : k \in 0..n}

\* The set of elements of a sequence.
Range(s) == {s[i] : i \in 1..Len(s)}

Max(a, b) == IF a >= b THEN a ELSE b

\* std::max_element over a non-empty sequence of integers.
SeqMax(s) == CHOOSE m \in Range(s) : \A x \in Range(s) : x <= m

\* align_to(val, align) of mold.h: val rounded up to a multiple of align.
\* mold.h computes (val + align - 1) & ~(align - 1) and asserts that align is
\* a power of two; on powers of two the two agree.
AlignTo(val, align) == ((val + align - 1) \div align) * align

\* split(input, unit) (src/main.cc:147-160): the slices of a non-empty
\* vector, in order.
RECURSIVE SplitSpan(_, _)
SplitSpan(span, unit) ==
  IF Len(span) >= unit
    THEN <<SubSeq(span, 1, unit)>> \o
         SplitSpan(SubSeq(span, unit + 1, Len(span)), unit)
    ELSE IF span # <<>> THEN <<span>> ELSE <<>>

split(input, unit) == SplitSpan(input, unit)

(***************************************************************************)
(* The state                                                               *)
(***************************************************************************)

VARIABLES
  ms_priority,   \* ms_priority[f]: file->priority of out::objs[f]
  ms_sections,   \* ms_sections[f][s]: isec->fragments of section s of file f
  frag_alive,    \* frag_alive[fr]: frag->is_alive
  frag_isec,     \* frag_isec[fr]: the atomic frag->isec
  ms_pos,        \* ms_pos[f]: position of file f's task: [s, k, st]
  ms_cur         \* ms_cur[f]: the task's local `cur`

mergeVars == <<ms_priority, ms_sections, frag_alive, frag_isec, ms_pos, ms_cur>>

VARIABLES
  is_members,    \* osec->members: per member [align, size] of its shdr
  is_offset,     \* is_offset[m]: isec->offset of member m
  is_size,       \* the local vector `size`, one entry per slice
  is_alignments, \* the local vector `alignments`
  is_start,      \* the local vector `start`
  is_done1,      \* slices whose first-pass task has run
  is_done2,      \* slices whose second-pass task has run
  is_pc,         \* position of the task of this output section
  osec_shdr      \* osec->shdr: [sh_size, sh_addralign]

isecVars == <<is_members, is_offset, is_size, is_alignments, is_start,
              is_done1, is_done2, is_pc, osec_shdr>>

VARIABLES
  oc_chunks,     \* the chunks handed to set_osec_offsets, per chunk its
                 \* [kind, align, size, ptload]
  oc_shdr,       \* per chunk the [sh_offset, sh_addr] of chunk->shdr
  oc_i,          \* the chunk the loop of line 607 is at
  oc_fileoff,    \* the local fileoff
  oc_vaddr,      \* the local vaddr
  oc_filesize,   \* the value returned
  oc_pc          \* position in set_osec_offsets

osecVars == <<oc_chunks, oc_shdr, oc_i, oc_fileoff, oc_vaddr, oc_filesize,
              oc_pc>>

VARIABLES
  pl_allow,      \* config.allow_multiple_definition
  pl_esym,       \* pl_esym[f]: file f's ElfSym for the global symbol
  pl_symfile,    \* sym.file of the global symbol; 0 is null
  pl_step,       \* the step of main that is next or in progress
  pl_phase,      \* "begin", "tasks" (inside a parallel loop), "exit0", "aborted"
  pl_task,       \* pl_task[k][f]: the task of step k for file f
  pl_started,    \* the steps begun so far, in order
  pl_errors      \* the files for which Error() has recorded an error

pipeVars == <<pl_allow, pl_esym, pl_symfile, pl_step, pl_phase, pl_task,
              pl_started, pl_errors>>

VARIABLES
  bn_sections,   \* bn_sections[f][k]: isec->output_section->idx of section k
                 \* of out::objs[f]; 0 is a null section
  bn_groups,     \* the local `groups`: bn_groups[i][j], slice i, section j
  bn_members,    \* bn_members[j]: OutputSection::instances[j]->members
  bn_done1,      \* slices whose task of the first parallel_for has run
  bn_next,       \* bn_next[j]: the group the task of section j appends next
  bn_pc          \* position in bin_sections

binVars == <<bn_sections, bn_groups, bn_members, bn_done1, bn_next, bn_pc>>

VARIABLES
  rs_in_lib,     \* rs_in_lib[f]: file->is_in_lib of object f
  rs_as_needed,  \* as_needed of the shared object
  rs_defs,       \* rs_defs[f]: the global symbols file f defines
  rs_refs,       \* rs_refs[f]: the global symbols object f leaves undefined
  rs_undefined,  \* config.undefined
  rs_objs,       \* out::objs
  rs_dsos,       \* out::dsos
  rs_alive,      \* rs_alive[f]: file->is_alive
  rs_symfile,    \* rs_symfile[s]: Symbol::intern(s)->file; 0 is null
  rs_roots,      \* the local vector `roots`
  rs_work,       \* the objects parallel_do has still to process
  rs_pub,        \* the files whose resolve_symbols task has run
  rs_u,          \* the name of config.undefined the loop of line 181 is at
  rs_pc          \* position in resolve_symbols

resolveVars == <<rs_in_lib, rs_as_needed, rs_defs, rs_refs, rs_undefined,
                 rs_objs, rs_dsos, rs_alive, rs_symfile, rs_roots, rs_work,
                 rs_pub, rs_u, rs_pc>>

VARIABLES
  rd_args,       \* file_args, the file-related command line tokens
  rd_preload,    \* config.preload
  rd_pos,        \* the token read_input_files is at
  rd_ctx,        \* the ReadContext of the running read_input_files
  rd_obj_cache,  \* obj_cache of read_file: key -> objects
  rd_dso_cache,  \* dso_cache of read_file: key -> shared objects
  rd_objs,       \* out::objs
  rd_dsos,       \* out::dsos
  rd_created,    \* every ObjectFile constructed so far
  rd_pc          \* "preload", "main" or "done"

readVars == <<rd_args, rd_preload, rd_pos, rd_ctx, rd_obj_cache,
              rd_dso_cache, rd_objs, rd_dsos, rd_created, rd_pc>>

VARIABLES
  sc_alloc,      \* shdr.sh_flags & SHF_ALLOC of the section scanned
  sc_rels,       \* rels of the section
  sc_sym,        \* sc_sym[s]: the Symbol a relocation may refer to
  sc_i,          \* the loop variable i of scan_relocations, from 1
  sc_scanned,    \* the indices for which the loop body has run
  sc_needs,      \* sc_needs[s]: the need flags of symbol s
  sc_has_error,  \* file->has_error
  sc_errors,     \* an error has been recorded for the next checkpoint
  sc_slots,      \* sc_slots[s]: the tables symbol s has a slot in
  sc_buf,        \* the output buffer has been created and written
  sc_pc          \* position in scan_rels and main

scanVars == <<sc_alloc, sc_rels, sc_sym, sc_i, sc_scanned, sc_needs, sc_has_error,
              sc_errors, sc_slots, sc_buf, sc_pc>>

VARIABLES
  cp_nobits,     \* shdr.sh_type == SHT_NOBITS || shdr.sh_size == 0
  cp_rels,       \* cp_rels[i]: r_type of rels[i]
  cp_piece,      \* rel_pieces[i].piece is non-null for the relocations
  cp_sym,        \* the Symbol the relocations refer to
  cp_env,        \* the addresses and the addend the formulas read
  cp_buf,        \* out::buf from base on: cp_buf[k] is the byte base[k]
  cp_prev,       \* cp_buf before the last turn of the loop
  cp_last,       \* the index of the relocation of the last turn, 0 if none
  cp_i,          \* the loop variable i of copy_buf, from 1
  cp_errors,     \* an error has been recorded for the next checkpoint
  cp_pc          \* position in copy_buf

copyVars == <<cp_nobits, cp_rels, cp_piece, cp_sym, cp_env, cp_buf, cp_prev, cp_last,
              cp_i, cp_errors, cp_pc>>

VARIABLES
  pd_chunks,     \* out::chunks: what the layout reads of each chunk
  pd_offset,     \* pd_offset[c]: chunk->shdr.sh_offset
  pd_filesize,   \* filesize, as set_osec_offsets returned it
  pd_buf,        \* out::buf: pd_buf[k] is the byte at file offset k
  pd_i,          \* the loop variable i of clear_padding
  pd_pc          \* position in clear_padding

padVars == <<pd_chunks, pd_offset, pd_filesize, pd_buf, pd_i, pd_pc>>

VARIABLES
  rk_chunks,     \* out::chunks: the section header of each chunk
  rk_pc          \* position around the sort of out::chunks

rankVars == <<rk_chunks, rk_pc>>

VARIABLES
  lk_rels,       \* lk_rels[t]: the relocations the task of file t scans
  lk_sym,        \* lk_sym[s]: the symbol s, shared by the files
  lk_i,          \* lk_i[t]: the loop variable i of the task
  lk_pc,         \* lk_pc[t]: position of the task in scan_relocations
  lk_mu,         \* lk_mu[s]: the task that holds sym.mu, or 0
  lk_needs       \* lk_needs[s]: the need flags of the symbol

lockVars == <<lk_rels, lk_sym, lk_i, lk_pc, lk_mu, lk_needs>>

VARIABLES
  pt_preload,    \* config.preload
  pt_left,       \* the files of file_args the pass has still to read
  pt_enqueued,   \* the calls of parser_tg.run so far
  pt_completed,  \* the parse tasks that have returned
  pt_joins,      \* the calls of parser_tg.wait that have returned
  pt_pc          \* position in main

parseVars == <<pt_preload, pt_left, pt_enqueued, pt_completed, pt_joins, pt_pc>>

VARIABLES
  pr_in_lib,     \* pr_in_lib[i]: out::objs[i]->is_in_lib
  pr_ndsos,      \* out::dsos.size()
  pr_obj,        \* pr_obj[i]: out::objs[i]->priority, 0 while not assigned
  pr_dso,        \* pr_dso[j]: out::dsos[j]->priority, 0 while not assigned
  pr_priority,   \* the local variable priority of main
  pr_i,          \* the position of the running loop in its list
  pr_pc          \* the loop that runs

prioVars == <<pr_in_lib, pr_ndsos, pr_obj, pr_dso, pr_priority, pr_i, pr_pc>>

VARIABLES
  ft_mb,         \* the MemoryMappedFile read_file is called with
  ft_preloading, \* the static variable preloading
  ft_type,       \* what get_file_type returned
  ft_objs,       \* the files read_file has added to out::objs
  ft_dsos,       \* the files read_file has added to out::dsos
  ft_stored,     \* the files read_file has stored in the caches
  ft_pc          \* "call", "returned", or "fatal" after Fatal()

typeVars == <<ft_mb, ft_preloading, ft_type, ft_objs, ft_dsos, ft_stored, ft_pc>>

VARIABLES
  frag_alignment, \* frag_alignment[fr]: frag->alignment
  frag_size,     \* frag_size[fr]: frag->data.size()
  frag_offset,   \* frag_offset[fr]: frag->offset, -1 while not assigned
  frag_writes,   \* frag_writes[fr]: the sections that assigned frag->offset
  m2_size,       \* m2_size[sec]: isec->size
  m2_offset,     \* m2_offset[f]: the local variable offset of the task
  m2_pos,        \* m2_pos[f]: position of the task of file f: [s, k, st]
  m2_pc          \* position in handle_mergeable_strings after pass one

merge2Vars == <<frag_alignment, frag_size, frag_offset, frag_writes, m2_size, m2_offset,
                m2_pos, m2_pc>>

VARIABLES
  ch_instances,  \* OutputSection::instances, by the key of each section
  ch_chunks,     \* out::chunks, by the key of each chunk
  ch_pc          \* position in main between lines 955 and 979

chunkVars == <<ch_instances, ch_chunks, ch_pc>>

VARIABLES
  ix_rels,       \* the relocations of the section: [r_type, skip]
  ix_fn,         \* "scan": scan_relocations, "copy": copy_buf
  ix_assert,     \* the build evaluates assert()
  ix_i,          \* the loop variable i
  ix_reads,      \* the indices at which rels has been read
  ix_pc          \* "run", "done", or "aborted" by a failed assertion

indexVars == <<ix_rels, ix_fn, ix_assert, ix_i, ix_reads, ix_pc>>

VARIABLES
  cm_rels,       \* cm_rels[c]: the r_type of the relocations of chunk c
  cm_i,          \* cm_i[c]: the relocations the task of chunk c has passed
  cm_applied,    \* the relocations <<c, k>> that have been applied
  cm_errors,     \* an error has been recorded for the next checkpoint
  cm_buildid,    \* out::buildid is not null
  cm_steps,      \* the steps after the checkpoint that have run
  cm_pc          \* position in main between lines 1111 and 1129

commitVars == <<cm_rels, cm_i, cm_applied, cm_errors, cm_buildid, cm_steps, cm_pc>>

VARIABLES
  ag_rels,       \* the relocations of the section: [r_type, r_sym]
  ag_sym,        \* ag_sym[s]: the symbol as scan_relocations reads it
  ag_needs,      \* ag_needs[s]: the need flags of symbol s
  ag_tlsgd_idx,  \* ag_tlsgd_idx[s]: sym.tlsgd_idx
  ag_tlsld_idx,  \* ag_tlsld_idx[s]: sym.tlsld_idx
  ag_got,        \* the number of slots of out::got
  ag_i,          \* the loop variable of the running loop, from 1
  ag_scanned,    \* the relocations scan_relocations has looked at
  ag_applied,    \* the relocations copy_buf has looked at
  ag_pc          \* "scan", "assign", "copy", "done"

agreeVars == <<ag_rels, ag_sym, ag_needs, ag_tlsgd_idx, ag_tlsld_idx, ag_got, ag_i,
               ag_scanned, ag_applied, ag_pc>>

vars == <<mergeVars, isecVars, osecVars, pipeVars, binVars, resolveVars, readVars,
          scanVars, copyVars, padVars, rankVars, lockVars, parseVars, prioVars,
          typeVars, merge2Vars, chunkVars, indexVars, commitVars, agreeVars>>

\* What the actions of each part leave unchanged.
mergeOthers ==
  <<isecVars, osecVars, pipeVars, binVars, resolveVars, readVars, scanVars,
    copyVars, padVars, rankVars, lockVars, parseVars, prioVars, typeVars,
    merge2Vars, chunkVars, indexVars, commitVars, agreeVars>>
isecOthers ==
  <<mergeVars, osecVars, pipeVars, binVars, resolveVars, readVars, scanVars,
    copyVars, padVars, rankVars, lockVars, parseVars, prioVars, typeVars,
    merge2Vars, chunkVars, indexVars, commitVars, agreeVars>>
osecOthers ==
  <<mergeVars, isecVars, pipeVars, binVars, resolveVars, readVars, scanVars,
    copyVars, padVars, rankVars, lockVars, parseVars, prioVars, typeVars,
    merge2Vars, chunkVars, indexVars, commitVars, agreeVars>>
pipeOthers ==
  <<mergeVars, isecVars, osecVars, binVars, resolveVars, readVars, scanVars,
    copyVars, padVars, rankVars, lockVars, parseVars, prioVars, typeVars,
    merge2Vars, chunkVars, indexVars, commitVars, agreeVars>>
binOthers ==
  <<mergeVars, isecVars, osecVars, pipeVars, resolveVars, readVars, scanVars,
    copyVars, padVars, rankVars, lockVars, parseVars, prioVars, typeVars,
    merge2Vars, chunkVars, indexVars, commitVars, agreeVars>>
resolveOthers ==
  <<mergeVars, isecVars, osecVars, pipeVars, binVars, readVars, scanVars,
    copyVars, padVars, rankVars, lockVars, parseVars, prioVars, typeVars,
    merge2Vars, chunkVars, indexVars, commitVars, agreeVars>>
readOthers ==
  <<mergeVars, isecVars, osecVars, pipeVars, binVars, resolveVars, scanVars,
    copyVars, padVars, rankVars, lockVars, parseVars, prioVars, typeVars,
    merge2Vars, chunkVars, indexVars, commitVars, agreeVars>>
scanOthers ==
  <<mergeVars, isecVars, osecVars, pipeVars, binVars, resolveVars, readVars,
    copyVars, padVars, rankVars, lockVars, parseVars, prioVars, typeVars,
    merge2Vars, chunkVars, indexVars, commitVars, agreeVars>>
copyOthers ==
  <<mergeVars, isecVars, osecVars, pipeVars, binVars, resolveVars, readVars,
    scanVars, padVars, rankVars, lockVars, parseVars, prioVars, typeVars,
    merge2Vars, chunkVars, indexVars, commitVars, agreeVars>>
padOthers ==
  <<mergeVars, isecVars, osecVars, pipeVars, binVars, resolveVars, readVars,
    scanVars, copyVars, rankVars, lockVars, parseVars, prioVars, typeVars,
    merge2Vars, chunkVars, indexVars, commitVars, agreeVars>>
rankOthers ==
  <<mergeVars, isecVars, osecVars, pipeVars, binVars, resolveVars, readVars,
    scanVars, copyVars, padVars, lockVars, parseVars, prioVars, typeVars,
    merge2Vars, chunkVars, indexVars, commitVars, agreeVars>>
lockOthers ==
  <<mergeVars, isecVars, osecVars, pipeVars, binVars, resolveVars, readVars,
    scanVars, copyVars, padVars, rankVars, parseVars, prioVars, typeVars,
    merge2Vars, chunkVars, indexVars, commitVars, agreeVars>>
parseOthers ==
  <<mergeVars, isecVars, osecVars, pipeVars, binVars, resolveVars, readVars,
    scanVars, copyVars, padVars, rankVars, lockVars, prioVars, typeVars,
    merge2Vars, chunkVars, indexVars, commitVars, agreeVars>>
prioOthers ==
  <<mergeVars, isecVars, osecVars, pipeVars, binVars, resolveVars, readVars,
    scanVars, copyVars, padVars, rankVars, lockVars, parseVars, typeVars,
    merge2Vars, chunkVars, indexVars, commitVars, agreeVars>>
typeOthers ==
  <<mergeVars, isecVars, osecVars, pipeVars, binVars, resolveVars, readVars,
    scanVars, copyVars, padVars, rankVars, lockVars, parseVars, prioVars,
    merge2Vars, chunkVars, indexVars, commitVars, agreeVars>>
merge2Others ==
  <<mergeVars, isecVars, osecVars, pipeVars, binVars, resolveVars, readVars,
    scanVars, copyVars, padVars, rankVars, lockVars, parseVars, prioVars,
    typeVars, chunkVars, indexVars, commitVars, agreeVars>>
chunkOthers ==
  <<mergeVars, isecVars, osecVars, pipeVars, binVars, resolveVars, readVars,
    scanVars, copyVars, padVars, rankVars, lockVars, parseVars, prioVars,
    typeVars, merge2Vars, indexVars, commitVars, agreeVars>>
indexOthers ==
  <<mergeVars, isecVars, osecVars, pipeVars, binVars, resolveVars, readVars,
    scanVars, copyVars, padVars, rankVars, lockVars, parseVars, prioVars,
    typeVars, merge2Vars, chunkVars, commitVars, agreeVars>>
commitOthers ==
  <<mergeVars, isecVars, osecVars, pipeVars, binVars, resolveVars, readVars,
    scanVars, copyVars, padVars, rankVars, lockVars, parseVars, prioVars,
    typeVars, merge2Vars, chunkVars, indexVars, agreeVars>>
agreeOthers ==
  <<mergeVars, isecVars, osecVars, pipeVars, binVars, resolveVars, readVars,
    scanVars, copyVars, padVars, rankVars, lockVars, parseVars, prioVars,
    typeVars, merge2Vars, chunkVars, indexVars, commitVars>>

\* The values of a group of variables while another part of the pipeline is
\* being modelled.
MergeIdle ==
  /\ ms_priority = <<>> /\ ms_sections = <<>> /\ frag_alive = <<>>
  /\ frag_isec = <<>> /\ ms_pos = <<>> /\ ms_cur = <<>>

IsecIdle ==
  /\ is_members = <<>> /\ is_offset = <<>> /\ is_size = <<>>
  /\ is_alignments = <<>> /\ is_start = <<>> /\ is_done1 = {}
  /\ is_done2 = {} /\ is_pc = "idle" /\ osec_shdr = <<>>

OsecIdle ==
  /\ oc_chunks = <<>> /\ oc_shdr = <<>> /\ oc_i = 0 /\ oc_fileoff = 0
  /\ oc_vaddr = 0 /\ oc_filesize = 0 /\ oc_pc = "idle"

PipeIdle ==
  /\ pl_allow = FALSE /\ pl_esym = <<>> /\ pl_symfile = 0 /\ pl_step = 0
  /\ pl_phase = "idle" /\ pl_task = <<>> /\ pl_started = <<>>
  /\ pl_errors = {}

BinIdle ==
  /\ bn_sections = <<>> /\ bn_groups = <<>> /\ bn_members = <<>>
  /\ bn_done1 = {} /\ bn_next = <<>> /\ bn_pc = "idle"

ResolveIdle ==
  /\ rs_in_lib = <<>> /\ rs_as_needed = FALSE /\ rs_defs = <<>>
  /\ rs_refs = <<>> /\ rs_undefined = <<>> /\ rs_objs = <<>>
  /\ rs_dsos = <<>> /\ rs_alive = <<>> /\ rs_symfile = <<>>
  /\ rs_roots = <<>> /\ rs_work = {} /\ rs_pub = {} /\ rs_u = 0
  /\ rs_pc = "idle"

ReadIdle ==
  /\ rd_args = <<>> /\ rd_preload = FALSE /\ rd_pos = 0 /\ rd_ctx = <<>>
  /\ rd_obj_cache = <<>> /\ rd_dso_cache = <<>> /\ rd_objs = <<>>
  /\ rd_dsos = <<>> /\ rd_created = {} /\ rd_pc = "idle"

ScanIdle ==
  /\ sc_alloc = FALSE /\ sc_rels = <<>> /\ sc_sym = <<>> /\ sc_i = 0
  /\ sc_scanned = {} /\ sc_needs = <<>> /\ sc_has_error = FALSE
  /\ sc_errors = FALSE /\ sc_slots = <<>> /\ sc_buf = FALSE
  /\ sc_pc = "idle"

CopyIdle ==
  /\ cp_nobits = FALSE /\ cp_rels = <<>> /\ cp_piece = FALSE
  /\ cp_sym = <<>> /\ cp_env = <<>> /\ cp_buf = <<>> /\ cp_prev = <<>>
  /\ cp_last = 0 /\ cp_i = 0 /\ cp_errors = FALSE /\ cp_pc = "idle"

PadIdle ==
  /\ pd_chunks = <<>> /\ pd_offset = <<>> /\ pd_filesize = 0
  /\ pd_buf = <<>> /\ pd_i = 0 /\ pd_pc = "idle"

RankIdle ==
  /\ rk_chunks = <<>> /\ rk_pc = "idle"

LockIdle ==
  /\ lk_rels = <<>> /\ lk_sym = <<>> /\ lk_i = <<>> /\ lk_pc = <<>>
  /\ lk_mu = <<>> /\ lk_needs = <<>>

ParseIdle ==
  /\ pt_preload = FALSE /\ pt_left = 0 /\ pt_enqueued = 0
  /\ pt_completed = 0 /\ pt_joins = 0 /\ pt_pc = "idle"

PrioIdle ==
  /\ pr_in_lib = <<>> /\ pr_ndsos = 0 /\ pr_obj = <<>> /\ pr_dso = <<>>
  /\ pr_priority = 0 /\ pr_i = 0 /\ pr_pc = "idle"

TypeIdle ==
  /\ ft_mb = <<>> /\ ft_preloading = FALSE /\ ft_type = ""
  /\ ft_objs = 0 /\ ft_dsos = 0 /\ ft_stored = 0 /\ ft_pc = "idle"

Merge2Idle ==
  /\ frag_alignment = <<>> /\ frag_size = <<>> /\ frag_offset = <<>>
  /\ frag_writes = <<>> /\ m2_size = <<>> /\ m2_offset = <<>>
  /\ m2_pos = <<>> /\ m2_pc = "idle"

ChunkIdle ==
  /\ ch_instances = <<>> /\ ch_chunks = <<>> /\ ch_pc = "idle"

IndexIdle ==
  /\ ix_rels = <<>> /\ ix_fn = "idle" /\ ix_assert = FALSE /\ ix_i = 0
  /\ ix_reads = {} /\ ix_pc = "idle"

CommitIdle ==
  /\ cm_rels = <<>> /\ cm_i = <<>> /\ cm_applied = {} /\ cm_errors = FALSE
  /\ cm_buildid = FALSE /\ cm_steps = <<>> /\ cm_pc = "idle"

AgreeIdle ==
  /\ ag_rels = <<>> /\ ag_sym = <<>> /\ ag_needs = <<>>
  /\ ag_tlsgd_idx = <<>> /\ ag_tlsld_idx = <<>> /\ ag_got = 0 /\ ag_i = 0
  /\ ag_scanned = {} /\ ag_applied = {} /\ ag_pc = "idle"

\* Every group of variables but the named one is idle.
IdleBut(part) ==
  /\ part # "merge" => MergeIdle
  /\ part # "isec" => IsecIdle
  /\ part # "osec" => OsecIdle
  /\ part # "pipe" => PipeIdle
  /\ part # "bin" => BinIdle
  /\ part # "resolve" => ResolveIdle
  /\ part # "read" => ReadIdle
  /\ part # "scan" => ScanIdle
  /\ part # "copy" => CopyIdle
  /\ part # "pad" => PadIdle
  /\ part # "rank" => RankIdle
  /\ part # "lock" => LockIdle
  /\ part # "parse" => ParseIdle
  /\ part # "prio" => PrioIdle
  /\ part # "type" => TypeIdle
  /\ part # "merge2" => Merge2Idle
  /\ part # "chunk" => ChunkIdle
  /\ part # "index" => IndexIdle
  /\ part # "commit" => CommitIdle
  /\ part # "agree" => AgreeIdle


(***************************************************************************)
(* handle_mergeable_strings, first pass (src/main.cc:213-225)              *)
(***************************************************************************)

\* The number of object files of the mergeable-string model.
MaxMFiles == 2

MFiles == 1..MaxMFiles
Frags == {1, 2}

\* The number of fragment occurrences in a file's mergeable sections.
RECURSIVE TotalLen(_)
TotalLen(secs) ==
  IF secs = <<>> THEN 0 ELSE Len(Head(secs)) + TotalLen(Tail(secs))

\* The shapes of file->mergeable_sections the model draws from: no section,
\* one section of at most two fragments, or two sections of one fragment
\* each.  This has an empty section, a fragment twice in one section, and a
\* fragment in two sections of one file.
MSecLayouts ==
  {l \in SeqsUpTo(SeqsUpTo(Frags, 2), 2) :
     TotalLen(l) <= 2 /\ (Len(l) = 2 => l[1] # <<>> /\ l[2] # <<>>)}

\* A MergeableSection is named by <<file index in out::objs, index in
\* file->mergeable_sections>>; NullSec is the null pointer.
NullSec == <<0, 0>>

\* file->priority of the file owning a section.
SecPriority(sec) == ms_priority[sec[1]]

\* Line 220 without the comparison of priorities: only an unowned fragment
\* is claimed.
ClaimLoopCond_NoPriority(cur, isec) == cur = NullSec

\* Line 220 with the comparison turned round: a section takes a fragment
\* over from a file of lower priority.
ClaimLoopCond_Less(cur, isec) ==
  cur = NullSec \/ SecPriority(cur) < SecPriority(isec)

\* The loop condition of line 220: !cur || cur->file->priority > isec->file->priority
ClaimLoopCond(cur, isec) ==
  cur = NullSec \/ SecPriority(cur) > SecPriority(isec)

\* The position after fragment k of section s of file f: the next fragment,
\* the first fragment of the next non-empty section, or the end of the task.
RECURSIVE MsSkip(_, _, _)
MsSkip(f, s, k) ==
  IF s > Len(ms_sections[f]) THEN [s |-> 0, k |-> 0, st |-> "done"]
  ELSE IF k > Len(ms_sections[f][s]) THEN MsSkip(f, s + 1, 1)
  ELSE [s |-> s, k |-> k, st |-> "load"]

MsAdvance(f) == MsSkip(f, ms_pos[f].s, ms_pos[f].k + 1)

MsFrag(f) == ms_sections[f][ms_pos[f].s][ms_pos[f].k]
MsIsec(f) == <<f, ms_pos[f].s>>

\* Lines 217-220: skip a dead fragment; otherwise load frag->isec into cur and
\* evaluate the loop condition.
ClaimLoad(f) ==
  /\ ms_pos[f].st = "load"
  /\ IF ~frag_alive[MsFrag(f)]
       THEN /\ ms_pos' = [ms_pos EXCEPT ![f] = MsAdvance(f)]
            /\ UNCHANGED ms_cur
       ELSE /\ ms_cur' = [ms_cur EXCEPT ![f] = frag_isec[MsFrag(f)]]
            /\ ms_pos' = [ms_pos EXCEPT ![f] =
                 IF ClaimLoopCond(frag_isec[MsFrag(f)], MsIsec(f))
                   THEN [ms_pos[f] EXCEPT !.st = "cas"]
                   ELSE MsAdvance(f)]
  /\ UNCHANGED <<ms_priority, ms_sections, frag_alive, frag_isec>>
  /\ UNCHANGED mergeOthers

\* Line 221-222: compare_exchange_weak succeeds: frag->isec = isec, break.
ClaimCasOk(f) ==
  /\ ms_pos[f].st = "cas"
  /\ frag_isec[MsFrag(f)] = ms_cur[f]
  /\ frag_isec' = [frag_isec EXCEPT ![MsFrag(f)] = MsIsec(f)]
  /\ ms_pos' = [ms_pos EXCEPT ![f] = MsAdvance(f)]
  /\ UNCHANGED <<ms_priority, ms_sections, frag_alive, ms_cur>>
  /\ UNCHANGED mergeOthers

\* Line 221: compare_exchange_weak fails (the value differs, or spuriously):
\* cur receives the current value and the loop condition is evaluated again.
ClaimCasFail(f) ==
  /\ ms_pos[f].st = "cas"
  /\ ms_cur' = [ms_cur EXCEPT ![f] = frag_isec[MsFrag(f)]]
  /\ ms_pos' = [ms_pos EXCEPT ![f] =
       IF ClaimLoopCond(frag_isec[MsFrag(f)], MsIsec(f))
         THEN ms_pos[f]
         ELSE MsAdvance(f)]
  /\ UNCHANGED <<ms_priority, ms_sections, frag_alive, frag_isec>>
  /\ UNCHANGED mergeOthers

\* The state before tbb::parallel_for_each of line 214 starts its tasks.
MergeInit ==
  /\ ms_priority \in {p \in [MFiles -> 2..(MaxMFiles + 1)] :
                        \A a, b \in MFiles : a # b => p[a] # p[b]}
  /\ ms_sections \in [MFiles -> MSecLayouts]
  /\ frag_alive \in {a \in [Frags -> BOOLEAN] : a[1]}
  /\ frag_isec = [fr \in Frags |-> NullSec]
  /\ ms_pos = [f \in MFiles |-> MsSkip(f, 1, 1)]
  /\ ms_cur = [f \in MFiles |-> NullSec]
  /\ IdleBut("merge")

MergeNext ==
  \E f \in MFiles : ClaimLoad(f) \/ ClaimCasOk(f) \/ ClaimCasFail(f)

SpecMerge == MergeInit /\ [][MergeNext]_vars

\* The first pass has ended: every per-file task has left its loops.
MergePass1Done == \A f \in MFiles : ms_pos[f].st = "done"

\* The sections of out::objs that contain fragment fr.
SecsWith(fr) ==
  {<<f, s>> \in MFiles \X (1..2) :
     s <= Len(ms_sections[f]) /\ fr \in Range(ms_sections[f][s])}

\* C1: after the first pass, every alive fragment that occurs in some
\* mergeable section has one owner, a section that contains it, and the
\* owner's file has the lowest priority among the files containing it.
C1_OwnerIsLowestPriority ==
  MergePass1Done =>
    \A fr \in Frags :
      (frag_alive[fr] /\ SecsWith(fr) # {}) =>
        /\ frag_isec[fr] \in SecsWith(fr)
        /\ \A sec \in SecsWith(fr) : SecPriority(frag_isec[fr]) <= SecPriority(sec)

\* The first pass has ended, and a fragment first claimed by one file was
\* taken over by a file with a lower priority.
C1_Witness ==
  /\ MergePass1Done
  /\ \E fr \in Frags :
       /\ frag_alive[fr]
       /\ \E sec \in SecsWith(fr) : sec[1] # frag_isec[fr][1]
       /\ \E f \in MFiles : ms_cur[f] # NullSec /\ ms_cur[f][1] # f
                             /\ frag_isec[fr] = <<f, 1>>

\* The steps of the task of file f.
ClaimTask(f) == ClaimLoad(f) \/ ClaimCasOk(f) \/ ClaimCasFail(f)

\* The tasks of tbb::parallel_for_each (line 214) all run: a task that can
\* change the state does so.  A compare_exchange_weak that fails although
\* the value is the expected one changes nothing, so that this also says
\* that such a failure does not repeat for ever.
MergeFairness == \A f \in MFiles : WF_vars(ClaimTask(f))

\* The files of out::objs in the order of their priorities: the tasks
\* differ in nothing but the file, so that every other assignment of the
\* priorities is this one with the files renamed.
MergeFairInit == MergeInit /\ ms_priority = [f \in MFiles |-> f + 1]

SpecMergeFair == MergeFairInit /\ [][MergeNext]_vars /\ MergeFairness

\* A task is in the loop of lines 220-222 only while the owner it saw last
\* is null or of a priority greater than its own.
InLoopOnlyWhileClaiming ==
  \A f \in MFiles :
    ms_pos[f].st = "cas" => ClaimLoopCond(ms_cur[f], MsIsec(f))

\* A change of the owner of a fragment gives it to a section that contains
\* it, and to a file of strictly lower priority than the owner before.
OwnerChangeLowersPriority ==
  \A fr \in Frags :
    frag_isec'[fr] # frag_isec[fr] =>
      /\ frag_isec'[fr] \in SecsWith(fr)
      /\ frag_isec[fr] # NullSec =>
           SecPriority(frag_isec'[fr]) < SecPriority(frag_isec[fr])

\* C20: under fair interleaving every task leaves the retry loop of every
\* fragment (the first pass ends); a task stays in the loop only while the
\* owner it saw is null or of greater priority; and every change of a
\* fragment's owner strictly lowers the owner's priority, so that no section
\* becomes the owner twice.
C20_ClaimLoopTerminates ==
  /\ <>MergePass1Done
  /\ []InLoopOnlyWhileClaiming
  /\ [][OwnerChangeLowersPriority]_vars

\* A task about to retry: its compare-exchange expects an unowned fragment,
\* which a file of greater priority has claimed meanwhile.
C20_Witness ==
  \E f \in MFiles :
    /\ ms_pos[f].st = "cas"
    /\ ms_cur[f] = NullSec
    /\ frag_isec[MsFrag(f)] # NullSec
    /\ SecPriority(frag_isec[MsFrag(f)]) > ms_priority[f]

(***************************************************************************)
(* set_isec_offsets (src/main.cc:353-393)                                  *)
(*                                                                         *)
(* The tasks of different output sections share no data (an input section  *)
(* is a member of one output section), so the model follows the task of    *)
(* one output section and the two nested parallel_for loops over its       *)
(* slices.                                                                 *)
(***************************************************************************)

\* The number of members of the output section.
MaxMembers == 5

\* The slice length handed to split at line 360.  The source uses 10000;
\* the model scales it down so that a member list has several slices.
SliceUnit == 2

\* The section headers of the members: power-of-two alignments, and sizes
\* that are and are not multiples of them; one member kind is empty.
IsecShapes ==
  {[align |-> a, size |-> z] : a \in {1, 4}, z \in {1, 3}}
    \cup {[align |-> 2, size |-> 0]}

\* The slices of osec->members, as sequences of member indices.
IsecSlices == split([m \in 1..Len(is_members) |-> m], SliceUnit)

\* Lines 365-376: the offsets a first-pass task gives to the members of one
\* slice, as [off, align, offsets]: the running offset, the running maximal
\* alignment and the offset assigned to each member of the slice so far.
RECURSIVE SliceLayout(_)
SliceLayout(slice) ==
  IF slice = <<>> THEN [off |-> 0, align |-> 1, offsets |-> <<>>]
  ELSE LET prev == SliceLayout(SubSeq(slice, 1, Len(slice) - 1))
           isec == is_members[slice[Len(slice)]]
           off  == AlignTo(prev.off, isec.align)
       IN [off     |-> off + isec.size,
           align   |-> Max(prev.align, isec.align),
           offsets |-> Append(prev.offsets, off)]

\* Lines 381-383 with start[i - 1] + size[i - 1] left out.
RECURSIVE IsecStarts_NoSize(_, _)
IsecStarts_NoSize(size, align) ==
  IF Len(size) <= 1 THEN [i \in 1..Len(size) |-> 0]
  ELSE LET prev == IsecStarts_NoSize(SubSeq(size, 1, Len(size) - 1), align)
       IN Append(prev, AlignTo(prev[Len(prev)], align))

\* Lines 381-383 with align_to left out: start[i] = start[i-1] + size[i-1].
RECURSIVE IsecStarts_Unaligned(_, _)
IsecStarts_Unaligned(size, align) ==
  IF Len(size) <= 1 THEN [i \in 1..Len(size) |-> 0]
  ELSE LET prev == IsecStarts_Unaligned(SubSeq(size, 1, Len(size) - 1),
                                        align)
       IN Append(prev, prev[Len(prev)] + size[Len(size) - 1])

\* Lines 381-383: start[0] = 0, start[i] = align_to(start[i-1] + size[i-1], align).
RECURSIVE IsecStarts(_, _)
IsecStarts(size, align) ==
  IF Len(size) <= 1 THEN [i \in 1..Len(size) |-> 0]
  ELSE LET prev == IsecStarts(SubSeq(size, 1, Len(size) - 1), align)
       IN Append(prev,
                 AlignTo(prev[Len(prev)] + size[Len(size) - 1], align))

\* Lines 357-358: an output section without members is left alone.
IsecEmpty ==
  /\ is_pc = "pass1"
  /\ is_members = <<>>
  /\ is_pc' = "done"
  /\ UNCHANGED <<is_members, is_offset, is_size, is_alignments, is_start,
                 is_done1, is_done2, osec_shdr>>
  /\ UNCHANGED isecOthers

\* Lines 364-377: the first-pass task of slice i.
IsecPass1(i) ==
  /\ is_pc = "pass1"
  /\ i \in 1..Len(IsecSlices)
  /\ i \notin is_done1
  /\ LET lay == SliceLayout(IsecSlices[i])
     IN /\ is_offset' = [m \in 1..Len(is_members) |->
             IF \E k \in 1..Len(IsecSlices[i]) : IsecSlices[i][k] = m
               THEN lay.offsets[CHOOSE k \in 1..Len(IsecSlices[i]) :
                                  IsecSlices[i][k] = m]
               ELSE is_offset[m]]
        /\ is_size' = [is_size EXCEPT ![i] = lay.off]
        /\ is_alignments' = [is_alignments EXCEPT ![i] = lay.align]
  /\ is_done1' = is_done1 \cup {i}
  /\ UNCHANGED <<is_members, is_start, is_done2, is_pc, osec_shdr>>
  /\ UNCHANGED isecOthers

\* Lines 379-383, after the first parallel_for has returned.
IsecCombine ==
  /\ is_pc = "pass1"
  /\ is_members # <<>>
  /\ is_done1 = 1..Len(IsecSlices)
  /\ is_start' = IsecStarts(is_size, SeqMax(is_alignments))
  /\ is_pc' = "pass2"
  /\ UNCHANGED <<is_members, is_offset, is_size, is_alignments,
                 is_done1, is_done2, osec_shdr>>
  /\ UNCHANGED isecOthers

\* Lines 385-388: the second-pass task of slice i (the loop starts at 1, the
\* second slice).
IsecPass2(i) ==
  /\ is_pc = "pass2"
  /\ i \in 2..Len(IsecSlices)
  /\ i \notin is_done2
  /\ is_offset' = [m \in 1..Len(is_members) |->
       IF \E k \in 1..Len(IsecSlices[i]) : IsecSlices[i][k] = m
         THEN is_offset[m] + is_start[i]
         ELSE is_offset[m]]
  /\ is_done2' = is_done2 \cup {i}
  /\ UNCHANGED <<is_members, is_size, is_alignments, is_start, is_done1,
                 is_pc, osec_shdr>>
  /\ UNCHANGED isecOthers

\* Lines 390-391, after the second parallel_for has returned.
IsecFinish ==
  /\ is_pc = "pass2"
  /\ is_done2 = 2..Len(IsecSlices)
  /\ osec_shdr' = [sh_size |-> is_start[Len(is_start)] + is_size[Len(is_size)],
                   sh_addralign |-> SeqMax(is_alignments)]
  /\ is_pc' = "done"
  /\ UNCHANGED <<is_members, is_offset, is_size, is_alignments, is_start,
                 is_done1, is_done2>>
  /\ UNCHANGED isecOthers

\* The state when the task of an output section starts: the members are
\* binned, no offset is assigned, and the section header is zero-initialised.
IsecInit ==
  /\ is_members \in SeqsUpTo(IsecShapes, MaxMembers)
  /\ is_offset = [m \in 1..Len(is_members) |-> -1]
  /\ is_size = [i \in 1..Len(IsecSlices) |-> 0]
  /\ is_alignments = [i \in 1..Len(IsecSlices) |-> 0]
  /\ is_start = [i \in 1..Len(IsecSlices) |-> 0]
  /\ is_done1 = {}
  /\ is_done2 = {}
  /\ is_pc = "pass1"
  /\ osec_shdr = [sh_size |-> 0, sh_addralign |-> 0]
  /\ IdleBut("isec")

IsecNext ==
  \/ IsecEmpty
  \/ \E i \in 1..MaxMembers : IsecPass1(i)
  \/ IsecCombine
  \/ \E i \in 1..MaxMembers : IsecPass2(i)
  \/ IsecFinish

SpecIsec == IsecInit /\ [][IsecNext]_vars

\* The bytes [offset, offset + sh_size) of member m within the output section.
IsecRange(m) == is_offset[m]..(is_offset[m] + is_members[m].size - 1)

\* C2: after set_isec_offsets, the byte ranges of any two distinct members of
\* an output section are disjoint, whatever the number of slices.
C2_MemberRangesDisjoint ==
  is_pc = "done" =>
    \A m, n \in 1..Len(is_members) :
      m # n => IsecRange(m) \cap IsecRange(n) = {}

\* Members of three slices have been laid out, the later ones moved by their
\* slice's start.
C2_Witness ==
  /\ is_pc = "done"
  /\ Len(IsecSlices) >= 3
  /\ \A m \in 1..Len(is_members) : is_members[m].size > 0
  /\ is_offset[Len(is_members)] > is_offset[1]

(***************************************************************************)
(* set_osec_offsets (src/main.cc:601-632)                                  *)
(***************************************************************************)

\* The number of chunks handed to set_osec_offsets.
MaxChunks == 3

\* PAGE_SIZE of mold.h.
PAGE_SIZE == 4096

\* The values of config.image_base: 0 under --pic (line 822), else the
\* default base of an executable.
ImageBases == {0, 2097152}

\* What set_osec_offsets reads of a chunk.  kind gives the section type and
\* flags: "alloc" is SHF_ALLOC and not SHT_NOBITS, "bss" is SHF_ALLOC and
\* SHT_NOBITS, "tbss" is SHF_ALLOC | SHF_TLS and SHT_NOBITS, "nonalloc" has
\* no SHF_ALLOC.  The alignments are below, and above, PAGE_SIZE.
ChunkShapes ==
  {[kind |-> k, align |-> as[1], size |-> as[2], ptload |-> pl] :
     k \in {"alloc", "bss", "tbss", "nonalloc"},
     as \in {<<1, 5>>, <<16, 4100>>, <<8192, 16>>},
     pl \in BOOLEAN}

IsAlloc(c) == c.kind # "nonalloc"           \* sh_flags & SHF_ALLOC
IsBss(c) == c.kind \in {"bss", "tbss"}      \* sh_type == SHT_NOBITS
IsTbss(c) == c.kind = "tbss"                \* is_bss && (sh_flags & SHF_TLS)

\* Lines 611-614 without the branch for vaddr % PAGE_SIZE < fileoff % PAGE_SIZE.
OsecRectify_NoWrap(fileoff, vaddr) ==
  IF vaddr % PAGE_SIZE > fileoff % PAGE_SIZE
    THEN fileoff + ((vaddr % PAGE_SIZE) - (fileoff % PAGE_SIZE))
    ELSE fileoff

\* Lines 611-614: the file offset moved forward until it is congruent to
\* vaddr modulo PAGE_SIZE.
OsecRectify(fileoff, vaddr) ==
  IF vaddr % PAGE_SIZE > fileoff % PAGE_SIZE
    THEN fileoff + ((vaddr % PAGE_SIZE) - (fileoff % PAGE_SIZE))
  ELSE IF vaddr % PAGE_SIZE < fileoff % PAGE_SIZE
    THEN AlignTo(fileoff, PAGE_SIZE) + (vaddr % PAGE_SIZE)
  ELSE fileoff

\* Lines 623-625 with the test inverted: only a NOBITS chunk moves the file
\* offset.
OsecAdvance_OnlyBss(chunk, fileoff) ==
  IF IsBss(chunk) THEN fileoff + chunk.size ELSE fileoff

\* Lines 623-625: a chunk that is not NOBITS takes sh_size bytes of the file.
OsecAdvance(chunk, fileoff) ==
  IF ~IsBss(chunk) THEN fileoff + chunk.size ELSE fileoff

\* Lines 607-630: one iteration of the loop over the chunks.
OsecStep ==
  /\ oc_pc = "loop"
  /\ oc_i <= Len(oc_chunks)
  /\ LET chunk == oc_chunks[oc_i]
         v1 == IF chunk.ptload THEN AlignTo(oc_vaddr, PAGE_SIZE) ELSE oc_vaddr
         f1 == OsecRectify(oc_fileoff, v1)
         f2 == AlignTo(f1, chunk.align)
         v2 == AlignTo(v1, chunk.align)
     IN /\ oc_shdr' = [oc_shdr EXCEPT ![oc_i] =
             [sh_offset |-> f2,
              sh_addr   |-> IF IsAlloc(chunk) THEN v2 ELSE oc_shdr[oc_i].sh_addr]]
        /\ oc_fileoff' = OsecAdvance(chunk, f2)
        /\ oc_vaddr' = IF ~IsTbss(chunk) THEN v2 + chunk.size ELSE v2
  /\ oc_i' = oc_i + 1
  /\ UNCHANGED <<oc_chunks, oc_filesize, oc_pc>>
  /\ UNCHANGED osecOthers

\* Line 631: return fileoff.
OsecReturn ==
  /\ oc_pc = "loop"
  /\ oc_i > Len(oc_chunks)
  /\ oc_filesize' = oc_fileoff
  /\ oc_pc' = "done"
  /\ UNCHANGED <<oc_chunks, oc_shdr, oc_i, oc_fileoff, oc_vaddr>>
  /\ UNCHANGED osecOthers

\* Lines 604-605: fileoff = 0, vaddr = config.image_base.
OsecInit ==
  /\ oc_chunks \in SeqsUpTo(ChunkShapes, MaxChunks)
  /\ oc_shdr = [c \in 1..Len(oc_chunks) |-> [sh_offset |-> 0, sh_addr |-> 0]]
  /\ oc_i = 1
  /\ oc_fileoff = 0
  /\ oc_vaddr \in ImageBases
  /\ oc_filesize = 0
  /\ oc_pc = "loop"
  /\ IdleBut("osec")

OsecNext == OsecStep \/ OsecReturn

SpecOsec == OsecInit /\ [][OsecNext]_vars

\* C3: after set_osec_offsets, the file offset of every chunk is a multiple
\* of its alignment, and the address of every SHF_ALLOC chunk is congruent
\* to its file offset modulo PAGE_SIZE.
C3_OffsetsAlignedAndCongruent ==
  oc_pc = "done" =>
    \A c \in 1..Len(oc_chunks) :
      /\ oc_shdr[c].sh_offset % oc_chunks[c].align = 0
      /\ IsAlloc(oc_chunks[c]) =>
           oc_shdr[c].sh_addr % PAGE_SIZE = oc_shdr[c].sh_offset % PAGE_SIZE

\* A SHF_ALLOC chunk was laid out right after a TLS NOBITS chunk and a
\* NOBITS chunk, the file offset having been wrapped to the next page.
C3_Witness ==
  /\ oc_pc = "done"
  /\ Len(oc_chunks) = 3
  /\ oc_chunks[1].kind = "alloc" /\ oc_chunks[1].size = 4100
  /\ oc_chunks[2].kind = "bss" /\ oc_chunks[2].size = 5
  /\ oc_chunks[3].kind = "alloc" /\ oc_chunks[3].ptload
  /\ oc_shdr[3].sh_offset > oc_shdr[2].sh_offset

\* The bytes of the file that hold the contents of chunk c are those from
\* ContentStart(c) up to, not including, ContentEnd(c): none for a NOBITS
\* chunk.
ContentStart(c) == oc_shdr[c].sh_offset
ContentEnd(c) ==
  IF IsBss(oc_chunks[c]) THEN oc_shdr[c].sh_offset
  ELSE oc_shdr[c].sh_offset + oc_chunks[c].size

\* C19: after set_osec_offsets has returned filesize, the content ranges of
\* two distinct chunks that are not NOBITS are disjoint, and each lies
\* within [0, filesize).
C19_ContentRangesDisjointInFile ==
  oc_pc = "done" =>
    /\ \A c, d \in 1..Len(oc_chunks) :
         (c # d /\ ContentStart(c) < ContentEnd(c)
                /\ ContentStart(d) < ContentEnd(d))
           => ContentEnd(c) <= ContentStart(d)
              \/ ContentEnd(d) <= ContentStart(c)
    /\ \A c \in 1..Len(oc_chunks) :
         ContentStart(c) < ContentEnd(c)
           => 0 <= ContentStart(c) /\ ContentEnd(c) <= oc_filesize

\* Two chunks with contents have been laid out around a NOBITS chunk that
\* shares its file offset with the end of the first; the second begins a
\* page further.
C19_Witness ==
  /\ oc_pc = "done"
  /\ Len(oc_chunks) = 3
  /\ ~IsBss(oc_chunks[1]) /\ IsBss(oc_chunks[2]) /\ ~IsBss(oc_chunks[3])
  /\ oc_chunks[2].kind = "bss"
  /\ oc_shdr[2].sh_offset = oc_shdr[1].sh_offset + oc_chunks[1].size
  /\ oc_shdr[3].sh_offset > oc_shdr[2].sh_offset
  /\ oc_filesize = oc_shdr[3].sh_offset + oc_chunks[3].size

(***************************************************************************)
(* main (src/main.cc:905-1129): the stages of the link, the tasks of their *)
(* parallel loops, and the checkpoints.                                    *)
(*                                                                         *)
(* The files are objects given on the command line outside archives: all   *)
(* are alive and stay in out::objs.  One global symbol is followed.        *)
(***************************************************************************)

\* The number of object files of the pipeline model.
MaxPFiles == 2

PFiles == 1..MaxPFiles

\* The steps of main from resolve_symbols to file->close(), in program
\* order.  kind "par" is a tbb::parallel_for_each / parallel_for over the
\* files (or slices, output sections, chunks), kind "ser" is code run by
\* main's own thread; cp says that Error::checkpoint() follows the step.
PipelineSteps == <<
  [fn |-> "resolve_symbols",          part |-> "publish",   kind |-> "par", cp |-> FALSE],
  [fn |-> "resolve_symbols",          part |-> "mark_live", kind |-> "ser", cp |-> FALSE],
  [fn |-> "eliminate_comdats",        part |-> "resolve",   kind |-> "par", cp |-> FALSE],
  [fn |-> "eliminate_comdats",        part |-> "eliminate", kind |-> "par", cp |-> FALSE],
  [fn |-> "convert_common_symbols",   part |-> "convert",   kind |-> "par", cp |-> FALSE],
  [fn |-> "handle_mergeable_strings", part |-> "claim",     kind |-> "par", cp |-> FALSE],
  [fn |-> "handle_mergeable_strings", part |-> "layout",    kind |-> "par", cp |-> FALSE],
  [fn |-> "handle_mergeable_strings", part |-> "index",     kind |-> "ser", cp |-> FALSE],
  [fn |-> "bin_sections",             part |-> "bin",       kind |-> "par", cp |-> FALSE],
  [fn |-> "bin_sections",             part |-> "append",    kind |-> "par", cp |-> FALSE],
  [fn |-> "set_isec_offsets",         part |-> "offsets",   kind |-> "par", cp |-> FALSE],
  [fn |-> "handle_undefined_weak_symbols", part |-> "weak", kind |-> "par", cp |-> FALSE],
  [fn |-> "check_duplicate_symbols",  part |-> "check",     kind |-> "par", cp |-> TRUE],
  [fn |-> "compute_visibility",       part |-> "visibility", kind |-> "ser", cp |-> FALSE],
  [fn |-> "export_dynamic",           part |-> "export",    kind |-> "ser", cp |-> FALSE],
  [fn |-> "scan_rels",                part |-> "scan",      kind |-> "par", cp |-> TRUE],
  [fn |-> "scan_rels",                part |-> "assign",    kind |-> "ser", cp |-> FALSE],
  [fn |-> "set_osec_offsets",         part |-> "layout",    kind |-> "ser", cp |-> FALSE],
  [fn |-> "copy_buf",                 part |-> "copy",      kind |-> "par", cp |-> TRUE],
  [fn |-> "close",                    part |-> "commit",    kind |-> "ser", cp |-> FALSE] >>

NSteps == Len(PipelineSteps)

\* The first and the last step of a stage function.
FirstStepOf(fn) ==
  CHOOSE k \in 1..NSteps :
    PipelineSteps[k].fn = fn /\ \A j \in 1..(k - 1) : PipelineSteps[j].fn # fn
LastStepOf(fn) ==
  CHOOSE k \in 1..NSteps :
    PipelineSteps[k].fn = fn /\ \A j \in (k + 1)..NSteps : PipelineSteps[j].fn # fn

\* The ElfSym of a file for the global symbol: its binding, the kind of its
\* st_shndx, and whether file->get_section(esym) is non-null (the section
\* was not eliminated).
Esyms ==
  {[bind |-> "GLOBAL", shndx |-> "UNDEF",  has_section |-> FALSE],
   [bind |-> "GLOBAL", shndx |-> "ABS",    has_section |-> FALSE],
   [bind |-> "GLOBAL", shndx |-> "COMMON", has_section |-> FALSE],
   [bind |-> "GLOBAL", shndx |-> "SEC",    has_section |-> TRUE],
   [bind |-> "GLOBAL", shndx |-> "SEC",    has_section |-> FALSE],
   [bind |-> "WEAK",   shndx |-> "SEC",    has_section |-> TRUE],
   [bind |-> "WEAK",   shndx |-> "SEC",    has_section |-> FALSE]}

EsymIsDefined(esym) == esym.shndx # "UNDEF"      \* esym.is_defined()
EsymIsAbs(esym) == esym.shndx = "ABS"            \* esym.is_abs()
EsymIsCommon(esym) == esym.shndx = "COMMON"      \* esym.is_common()

\* file->priority (lines 906-909): objects outside archives, from 2 on, in
\* the order of out::objs.
PFilePriority(f) == f + 1

\* The strength of a file's definition in the precedence of definition
\* publication: strong 1, weak 2, common 3.
EsymRank(esym) ==
  IF esym.shndx = "COMMON" THEN 3 ELSE IF esym.bind = "WEAK" THEN 2 ELSE 1

\* ObjectFile::resolve_symbols for the global symbol: file f becomes the
\* owner if the symbol has none, or f's definition is stronger than the
\* owner's, or as strong and f has the lower priority.
PublishOwner(f, cur) ==
  IF ~EsymIsDefined(pl_esym[f]) THEN cur
  ELSE IF cur = 0 THEN f
  ELSE IF EsymRank(pl_esym[f]) < EsymRank(pl_esym[cur]) THEN f
  ELSE IF EsymRank(pl_esym[f]) = EsymRank(pl_esym[cur])
          /\ PFilePriority(f) < PFilePriority(cur) THEN f
  ELSE cur

\* Lines 302-306 with the test of the weak binding left out and the owner
\* test inverted: only the owner is reported.
IsDuplicate_OwnerOnly(f) ==
  LET esym == pl_esym[f]
      is_eliminated ==
        ~EsymIsAbs(esym) /\ ~EsymIsCommon(esym) /\ ~esym.has_section
  IN EsymIsDefined(esym) /\ ~is_eliminated /\ pl_symfile = f

\* Lines 302-306: the condition under which check_duplicate_symbols records
\* "duplicate symbol" for file f.
IsDuplicate(f) ==
  LET esym == pl_esym[f]
      is_weak == esym.bind = "WEAK"
      is_eliminated ==
        ~EsymIsAbs(esym) /\ ~EsymIsCommon(esym) /\ ~esym.has_section
  IN EsymIsDefined(esym) /\ ~is_weak /\ ~is_eliminated /\ pl_symfile # f

\* Line 1008: check_duplicate_symbols runs unless
\* --allow-multiple-definition is given; every other step always runs.
StepEnabled(k) ==
  PipelineSteps[k].fn = "check_duplicate_symbols" => ~pl_allow

\* A parallel loop returns at once, without waiting for its tasks.
StageJoined_NoWait(k) == TRUE

\* tbb::parallel_for_each / parallel_for return when every task has run.
StageJoined(k) == \A f \in PFiles : pl_task[k][f] = "done"

\* Error::checkpoint(): the link exits if an error has been recorded.
CheckpointAborts(k) == PipelineSteps[k].cp /\ pl_errors # {}

\* main reaches a parallel loop and spawns its tasks.
StepBegin ==
  /\ pl_phase = "begin"
  /\ pl_step <= NSteps
  /\ StepEnabled(pl_step)
  /\ PipelineSteps[pl_step].kind = "par"
  /\ pl_task' = [pl_task EXCEPT ![pl_step] = [f \in PFiles |-> "ready"]]
  /\ pl_started' = Append(pl_started, pl_step)
  /\ pl_phase' = "tasks"
  /\ UNCHANGED <<pl_allow, pl_esym, pl_symfile, pl_step, pl_errors>>
  /\ UNCHANGED pipeOthers

\* Line 1008: the duplicate check is not run.
StepSkip ==
  /\ pl_phase = "begin"
  /\ pl_step <= NSteps
  /\ ~StepEnabled(pl_step)
  /\ pl_step' = pl_step + 1
  /\ UNCHANGED <<pl_allow, pl_esym, pl_symfile, pl_phase, pl_task,
                 pl_started, pl_errors>>
  /\ UNCHANGED pipeOthers

\* A worker thread picks up the task of step k for file f.
TaskStart(k, f) ==
  /\ pl_task[k][f] = "ready"
  /\ pl_task' = [pl_task EXCEPT ![k][f] = "running"]
  /\ UNCHANGED <<pl_allow, pl_esym, pl_symfile, pl_step, pl_phase,
                 pl_started, pl_errors>>
  /\ UNCHANGED pipeOthers

\* The task of step k for file f runs to completion: definition publication
\* (line 167), the duplicate check of one file (lines 299-309), or a task
\* whose effect the model does not follow.
TaskEnd(k, f) ==
  /\ pl_task[k][f] = "running"
  /\ pl_task' = [pl_task EXCEPT ![k][f] = "done"]
  /\ pl_symfile' =
       IF PipelineSteps[k].part = "publish"
         THEN PublishOwner(f, pl_symfile) ELSE pl_symfile
  /\ pl_errors' =
       IF PipelineSteps[k].fn = "check_duplicate_symbols" /\ IsDuplicate(f)
         THEN pl_errors \cup {f} ELSE pl_errors
  /\ UNCHANGED <<pl_allow, pl_esym, pl_step, pl_phase, pl_started>>
  /\ UNCHANGED pipeOthers

\* The parallel loop returns; the checkpoint after it, if any, ends the link
\* when an error was recorded.
StepJoin ==
  /\ pl_phase = "tasks"
  /\ StageJoined(pl_step)
  /\ IF CheckpointAborts(pl_step)
       THEN pl_phase' = "aborted" /\ UNCHANGED pl_step
       ELSE pl_phase' = "begin" /\ pl_step' = pl_step + 1
  /\ UNCHANGED <<pl_allow, pl_esym, pl_symfile, pl_task, pl_started,
                 pl_errors>>
  /\ UNCHANGED pipeOthers

\* main runs a step on its own thread.
SerialStep ==
  /\ pl_phase = "begin"
  /\ pl_step <= NSteps
  /\ StepEnabled(pl_step)
  /\ PipelineSteps[pl_step].kind = "ser"
  /\ pl_started' = Append(pl_started, pl_step)
  /\ pl_step' = pl_step + 1
  /\ UNCHANGED <<pl_allow, pl_esym, pl_symfile, pl_phase, pl_task,
                 pl_errors>>
  /\ UNCHANGED pipeOthers

\* Lines 1131-1152: main returns 0.
MainReturn ==
  /\ pl_phase = "begin"
  /\ pl_step = NSteps + 1
  /\ pl_phase' = "exit0"
  /\ UNCHANGED <<pl_allow, pl_esym, pl_symfile, pl_step, pl_task,
                 pl_started, pl_errors>>
  /\ UNCHANGED pipeOthers

\* main at line 916, before resolve_symbols.
PipeInit ==
  /\ pl_allow \in BOOLEAN
  /\ pl_esym \in [PFiles -> Esyms]
  /\ pl_symfile = 0
  /\ pl_step = 1
  /\ pl_phase = "begin"
  /\ pl_task = [k \in 1..NSteps |-> [f \in PFiles |-> "none"]]
  /\ pl_started = <<>>
  /\ pl_errors = {}
  /\ IdleBut("pipe")

Next ==
  \/ StepBegin
  \/ StepSkip
  \/ \E k \in 1..NSteps, f \in PFiles : TaskStart(k, f)
  \/ \E k \in 1..NSteps, f \in PFiles : TaskEnd(k, f)
  \/ StepJoin
  \/ SerialStep
  \/ MainReturn

Spec == PipeInit /\ [][Next]_vars

\* A task of step k has started (it is running or has run).
TaskBegun(k) == \E f \in PFiles : pl_task[k][f] \in {"running", "done"}

\* Every task spawned for step k has completed.
TasksComplete(k) == \A f \in PFiles : pl_task[k][f] \in {"none", "done"}

\* The stage functions named by the claim, in the claimed order.
C4_Stages == <<"resolve_symbols", "eliminate_comdats",
               "handle_mergeable_strings", "bin_sections",
               "set_isec_offsets", "scan_rels", "copy_buf">>

\* C4: the stages begin in the order resolve_symbols, eliminate_comdats,
\* handle_mergeable_strings, bin_sections, set_isec_offsets, scan_rels,
\* copy_buf, and no task of a later step has started while a task of an
\* earlier step has not completed.
C4_StagesInOrderWithBarriers ==
  /\ \A i, j \in 1..Len(pl_started) : i < j => pl_started[i] < pl_started[j]
  /\ \A a, b \in 1..Len(C4_Stages) :
       (a < b /\ \E i \in 1..Len(pl_started) :
                   PipelineSteps[pl_started[i]].fn = C4_Stages[b])
         => /\ LastStepOf(C4_Stages[a]) < FirstStepOf(C4_Stages[b])
            /\ \A k \in FirstStepOf(C4_Stages[a])..LastStepOf(C4_Stages[a]) :
                 \E i \in 1..Len(pl_started) : pl_started[i] = k
  /\ \A k1, k2 \in 1..NSteps :
       (k1 < k2 /\ TaskBegun(k2)) => TasksComplete(k1)

\* copy_buf has begun after all the earlier stages, and its tasks are
\* running.
C4_Witness ==
  /\ pl_phase = "tasks"
  /\ PipelineSteps[pl_step].fn = "copy_buf"
  /\ \A f \in PFiles : pl_task[pl_step][f] = "running"

\* Two files hold a strong definition of the symbol in a section that was
\* not eliminated.
TwoStrongDefinitions ==
  \E f, g \in PFiles :
    /\ f # g
    /\ \A h \in {f, g} :
         /\ pl_esym[h].bind = "GLOBAL"
         /\ pl_esym[h].shndx \in {"ABS", "SEC"}
         /\ pl_esym[h].shndx = "SEC" => pl_esym[h].has_section

DupCheckStep == FirstStepOf("check_duplicate_symbols")

\* C10: without --allow-multiple-definition, two strong definitions of a
\* symbol in live objects make check_duplicate_symbols record an error for a
\* file that is not the owner, and main does not get past the checkpoint of
\* that function: compute_visibility and scan_rels never begin.  With the
\* flag, the check is not run, nothing is recorded, and the owner stays the
\* one chosen by resolution.
C10_DuplicateAbortsAtCheckpoint ==
  /\ (~pl_allow /\ TwoStrongDefinitions) =>
       /\ pl_step <= DupCheckStep
       /\ pl_phase # "exit0"
       /\ (pl_step = DupCheckStep /\ pl_phase = "tasks" /\ StageJoined(pl_step))
            => \E f \in pl_errors : f # pl_symfile
       /\ pl_phase = "aborted" =>
            /\ pl_step = DupCheckStep
            /\ \E f \in pl_errors : f # pl_symfile
  /\ pl_allow =>
       /\ \A i \in 1..Len(pl_started) : pl_started[i] # DupCheckStep
       /\ pl_errors = {}
       /\ pl_phase # "aborted"
       /\ pl_step > DupCheckStep =>
            /\ pl_symfile \in PFiles \cup {0}
            /\ \A f \in PFiles : PublishOwner(f, pl_symfile) = pl_symfile

\* The link has aborted at the checkpoint of check_duplicate_symbols with
\* an error recorded for the file that lost the symbol.
C10_Witness ==
  /\ ~pl_allow
  /\ TwoStrongDefinitions
  /\ pl_phase = "aborted"
  /\ pl_step = DupCheckStep
  /\ pl_errors # {}

\* The definition of the symbol in file f is strong: not weak, not a common
\* symbol, and not in a section that was eliminated.
StrongDefinition(f) ==
  /\ pl_esym[f].bind = "GLOBAL"
  /\ pl_esym[f].shndx \in {"ABS", "SEC"}
  /\ pl_esym[f].shndx = "SEC" => pl_esym[f].has_section

\* C11: check_duplicate_symbols records a duplicate-symbol error only for a
\* file whose own definition of the symbol is strong; a weak definition, a
\* common symbol or a definition in an eliminated section never does.
C11_ErrorOnlyForStrongDefinition ==
  \A f \in pl_errors : StrongDefinition(f)

(***************************************************************************)
(* bin_sections (src/main.cc:263-293)                                      *)
(***************************************************************************)

\* The number of object files in out::objs when bin_sections runs.
MaxBFiles == 3

\* The number of slices out::objs is cut into at line 266.  The source uses
\* 128 (unit = (size + 127) / 128); the model scales it down so that a slice
\* holds several files.
BinSlices == 2

\* OutputSection::instances, by idx.
BOsecs == {1, 2}

\* file->sections of a file: at most two entries, each null (0) or an input
\* section with its output section.
BSectionLists == SeqsUpTo({0} \cup BOsecs, 2)

\* Line 266.
BinUnit == (Len(bn_sections) + (BinSlices - 1)) \div BinSlices

\* Line 267: the slices of out::objs, as sequences of file indices.
BinFileSlices == split([f \in 1..Len(bn_sections) |-> f], BinUnit)

\* The input sections of file f with output section j, in the order of
\* file->sections; an input section is named by <<file, index>>.
RECURSIVE FileGroup(_, _, _)
FileGroup(f, j, k) ==
  IF k > Len(bn_sections[f]) THEN <<>>
  ELSE (IF bn_sections[f][k] # 0 /\ bn_sections[f][k] = j
          THEN <<<<f, k>>>> ELSE <<>>) \o FileGroup(f, j, k + 1)

\* Lines 276-279: groups[i][j] as the task of a slice fills it.
RECURSIVE SliceGroup(_, _)
SliceGroup(slice, j) ==
  IF slice = <<>> THEN <<>>
  ELSE FileGroup(Head(slice), j, 1) \o SliceGroup(Tail(slice), j)

\* Line 291 with the group put in front of the members.
BinAppend_Front(members, group) == group \o members

\* Line 291: append(members, groups[i][j]).
BinAppend(members, group) == members \o group

\* Lines 149 and 153: with no object file, unit is 0 and split's assertion
\* input.size() > 0 fails (without the assertion its loop does not end, as
\* span.size() >= 0 always holds): bin_sections does not return.
BinSplitFails ==
  /\ bn_pc = "split"
  /\ Len(bn_sections) = 0
  /\ bn_pc' = "stuck"
  /\ UNCHANGED <<bn_sections, bn_groups, bn_members, bn_done1, bn_next>>
  /\ UNCHANGED binOthers

\* Lines 266-273: the slices, and one empty bucket per slice and section.
BinSplit ==
  /\ bn_pc = "split"
  /\ Len(bn_sections) > 0
  /\ bn_groups' = [i \in 1..Len(BinFileSlices) |-> [j \in BOsecs |-> <<>>]]
  /\ bn_pc' = "bin"
  /\ UNCHANGED <<bn_sections, bn_members, bn_done1, bn_next>>
  /\ UNCHANGED binOthers

\* Lines 275-280: the task of slice i.
BinSlice(i) ==
  /\ bn_pc = "bin"
  /\ i \in 1..Len(bn_groups)
  /\ i \notin bn_done1
  /\ bn_groups' = [bn_groups EXCEPT ![i] =
       [j \in BOsecs |-> SliceGroup(BinFileSlices[i], j)]]
  /\ bn_done1' = bn_done1 \cup {i}
  /\ UNCHANGED <<bn_sections, bn_members, bn_next, bn_pc>>
  /\ UNCHANGED binOthers

\* Lines 282-288: the first parallel_for has returned; the sizes are summed
\* (they only reserve memory) and the second parallel_for starts.
BinSizes ==
  /\ bn_pc = "bin"
  /\ bn_done1 = 1..Len(bn_groups)
  /\ bn_next' = [j \in BOsecs |-> 1]
  /\ bn_pc' = "append"
  /\ UNCHANGED <<bn_sections, bn_groups, bn_members, bn_done1>>
  /\ UNCHANGED binOthers

\* Lines 290-291: the task of section j appends the next group.
BinAppendGroup(j) ==
  /\ bn_pc = "append"
  /\ bn_next[j] <= Len(bn_groups)
  /\ bn_members' = [bn_members EXCEPT ![j] =
       BinAppend(bn_members[j], bn_groups[bn_next[j]][j])]
  /\ bn_next' = [bn_next EXCEPT ![j] = bn_next[j] + 1]
  /\ UNCHANGED <<bn_sections, bn_groups, bn_done1, bn_pc>>
  /\ UNCHANGED binOthers

\* Line 292: the second parallel_for has returned.
BinReturn ==
  /\ bn_pc = "append"
  /\ \A j \in BOsecs : bn_next[j] > Len(bn_groups)
  /\ bn_pc' = "done"
  /\ UNCHANGED <<bn_sections, bn_groups, bn_members, bn_done1, bn_next>>
  /\ UNCHANGED binOthers

\* bin_sections is entered: no output section has members yet.
BinInit ==
  /\ bn_sections \in SeqsUpTo(BSectionLists, MaxBFiles)
  /\ bn_groups = <<>>
  /\ bn_members = [j \in BOsecs |-> <<>>]
  /\ bn_done1 = {}
  /\ bn_next = [j \in BOsecs |-> 0]
  /\ bn_pc = "split"
  /\ IdleBut("bin")

BinNext ==
  \/ BinSplitFails
  \/ BinSplit
  \/ \E i \in 1..MaxBFiles : BinSlice(i)
  \/ BinSizes
  \/ \E j \in BOsecs : BinAppendGroup(j)
  \/ BinReturn

SpecBin == BinInit /\ [][BinNext]_vars

\* The non-null input sections whose output section is j.
IsecsOf(j) ==
  {<<f, k>> \in (1..MaxBFiles) \X (1..2) :
     /\ f <= Len(bn_sections)
     /\ k <= Len(bn_sections[f])
     /\ bn_sections[f][k] = j}

\* (file index, section index) of a comes before that of b.
IsecBefore(a, b) == a[1] < b[1] \/ (a[1] = b[1] /\ a[2] < b[2])

\* C5: after bin_sections, the members of each output section are the
\* non-null input sections assigned to it, each once, in the order of
\* (index of the file in out::objs, index of the section in the file).
C5_MembersExactAndOrdered ==
  bn_pc = "done" =>
    \A j \in BOsecs :
      /\ Range(bn_members[j]) = IsecsOf(j)
      /\ \A a, b \in 1..Len(bn_members[j]) :
           a < b => IsecBefore(bn_members[j][a], bn_members[j][b])

\* bin_sections has returned; an output section has members from both
\* slices, the first slice holding two files.
C5_Witness ==
  /\ bn_pc = "done"
  /\ Len(bn_groups) = 2
  /\ Len(BinFileSlices[1]) = 2
  /\ \E j \in BOsecs :
       /\ Len(bn_groups[1][j]) >= 2
       /\ Len(bn_groups[2][j]) >= 1
       /\ Len(bn_members[j]) >= 3

(***************************************************************************)
(* resolve_symbols (src/main.cc:162-196)                                   *)
(*                                                                         *)
(* out::objs holds every object file read, the dormant archive members     *)
(* included; out::dsos holds one shared object.  ObjectFile::              *)
(* resolve_symbols and mark_live_objects are not part of the sources at    *)
(* hand and follow the description of the two phases of resolution.        *)
(***************************************************************************)

\* The number of object files in out::objs.
MaxRObjs == 2

RObjs == 1..MaxRObjs
RDso == MaxRObjs + 1
RFiles == RObjs \cup {RDso}
RSyms == {1, 2}

\* The values of config.undefined: up to renaming of the symbols, every list
\* of at most two names.
RUndefinedLists == {<<>>, <<1>>, <<1, 1>>, <<1, 2>>}

IsDso(f) == f = RDso                       \* file->is_dso

\* is_alive as the constructors set it: an object is born alive unless it
\* is an archive member outside --whole-archive, a shared object unless it
\* is as-needed.
AliveOnEntry(f) == IF IsDso(f) THEN ~rs_as_needed ELSE ~rs_in_lib[f]

\* file->priority (lines 906-914): from 2 on, first the objects that are not
\* in a library, then those that are, then the shared objects.
RPriority(f) ==
  IF IsDso(f) THEN 2 + MaxRObjs
  ELSE IF ~rs_in_lib[f]
    THEN 1 + Cardinality({g \in RObjs : g <= f /\ ~rs_in_lib[g]})
    ELSE 1 + Cardinality({g \in RObjs : ~rs_in_lib[g]})
           + Cardinality({g \in RObjs : g <= f /\ rs_in_lib[g]})

\* Definition publication by file f: f becomes the owner of each symbol it
\* defines that has no owner or an owner of higher priority.
RPublish(f, symfile) ==
  [s \in RSyms |->
     IF s \in rs_defs[f]
        /\ (symfile[s] = 0 \/ RPriority(f) < RPriority(symfile[s]))
       THEN f ELSE symfile[s]]

\* Line 183 without the test of the value is_alive had: the owner is pushed
\* whenever it is not a shared object.
RootPushed_Always(was_alive, file) == ~IsDso(file)

\* Line 183: !file->is_alive.exchange(true) && !file->is_dso
RootPushed(was_alive, file) == ~was_alive /\ ~IsDso(file)

\* Lines 166-168: the task of an object file.
RsPublishObj(f) ==
  /\ rs_pc = "publish_objs"
  /\ f \in Range(rs_objs)
  /\ f \notin rs_pub
  /\ rs_symfile' = RPublish(f, rs_symfile)
  /\ rs_pub' = rs_pub \cup {f}
  /\ UNCHANGED <<rs_in_lib, rs_as_needed, rs_defs, rs_refs, rs_undefined,
                 rs_objs, rs_dsos, rs_alive, rs_roots, rs_work, rs_u, rs_pc>>
  /\ UNCHANGED resolveOthers

\* Line 168: the first parallel_for_each has returned.
RsObjsPublished ==
  /\ rs_pc = "publish_objs"
  /\ Range(rs_objs) \subseteq rs_pub
  /\ rs_pc' = "publish_dsos"
  /\ UNCHANGED <<rs_in_lib, rs_as_needed, rs_defs, rs_refs, rs_undefined,
                 rs_objs, rs_dsos, rs_alive, rs_symfile, rs_roots, rs_work,
                 rs_pub, rs_u>>
  /\ UNCHANGED resolveOthers

\* Lines 170-172: the task of a shared object.
RsPublishDso(f) ==
  /\ rs_pc = "publish_dsos"
  /\ f \in Range(rs_dsos)
  /\ f \notin rs_pub
  /\ rs_symfile' = RPublish(f, rs_symfile)
  /\ rs_pub' = rs_pub \cup {f}
  /\ UNCHANGED <<rs_in_lib, rs_as_needed, rs_defs, rs_refs, rs_undefined,
                 rs_objs, rs_dsos, rs_alive, rs_roots, rs_work, rs_u, rs_pc>>
  /\ UNCHANGED resolveOthers

\* Lines 172-179: the second parallel_for_each has returned; the objects
\* that are alive become roots, in the order of out::objs.
RsRootsAlive ==
  /\ rs_pc = "publish_dsos"
  /\ Range(rs_dsos) \subseteq rs_pub
  /\ rs_roots' = SelectSeq(rs_objs, LAMBDA f : rs_alive[f])
  /\ rs_u' = 1
  /\ rs_pc' = "roots_undefined"
  /\ UNCHANGED <<rs_in_lib, rs_as_needed, rs_defs, rs_refs, rs_undefined,
                 rs_objs, rs_dsos, rs_alive, rs_symfile, rs_work, rs_pub>>
  /\ UNCHANGED resolveOthers

\* Lines 181-184: one name of config.undefined.
RsRootUndefined ==
  /\ rs_pc = "roots_undefined"
  /\ rs_u <= Len(rs_undefined)
  /\ LET file == rs_symfile[rs_undefined[rs_u]]
     IN IF file = 0
          THEN UNCHANGED <<rs_alive, rs_roots>>
          ELSE /\ rs_alive' = [rs_alive EXCEPT ![file] = TRUE]
               /\ rs_roots' = IF RootPushed(rs_alive[file], file)
                                THEN Append(rs_roots, file) ELSE rs_roots
  /\ rs_u' = rs_u + 1
  /\ UNCHANGED <<rs_in_lib, rs_as_needed, rs_defs, rs_refs, rs_undefined,
                 rs_objs, rs_dsos, rs_symfile, rs_work, rs_pub, rs_pc>>
  /\ UNCHANGED resolveOthers

\* Line 186: the roots are handed to tbb::parallel_do.
RsStartMark ==
  /\ rs_pc = "roots_undefined"
  /\ rs_u > Len(rs_undefined)
  /\ rs_work' = Range(rs_roots)
  /\ rs_pc' = "mark"
  /\ UNCHANGED <<rs_in_lib, rs_as_needed, rs_defs, rs_refs, rs_undefined,
                 rs_objs, rs_dsos, rs_alive, rs_symfile, rs_roots, rs_pub,
                 rs_u>>
  /\ UNCHANGED resolveOthers

\* Lines 187-190: mark_live_objects of one object: the owner of every symbol
\* the object refers to is marked alive; an object that was not alive
\* before is fed back to parallel_do.
RsMarkLive(f) ==
  /\ rs_pc = "mark"
  /\ f \in rs_work
  /\ LET owners == {rs_symfile[s] : s \in rs_refs[f]} \ {0}
         pulled == {g \in owners : ~rs_alive[g]}
     IN /\ rs_alive' = [g \in RFiles |-> rs_alive[g] \/ g \in owners]
        /\ rs_work' = (rs_work \ {f}) \cup {g \in pulled : ~IsDso(g)}
  /\ UNCHANGED <<rs_in_lib, rs_as_needed, rs_defs, rs_refs, rs_undefined,
                 rs_objs, rs_dsos, rs_symfile, rs_roots, rs_pub, rs_u, rs_pc>>
  /\ UNCHANGED resolveOthers

\* Lines 193-195: parallel_do has returned; the files that are not alive
\* are erased from out::objs and out::dsos.
RsErase ==
  /\ rs_pc = "mark"
  /\ rs_work = {}
  /\ rs_objs' = SelectSeq(rs_objs, LAMBDA f : rs_alive[f])
  /\ rs_dsos' = SelectSeq(rs_dsos, LAMBDA f : rs_alive[f])
  /\ rs_pc' = "done"
  /\ UNCHANGED <<rs_in_lib, rs_as_needed, rs_defs, rs_refs, rs_undefined,
                 rs_alive, rs_symfile, rs_roots, rs_work, rs_pub, rs_u>>
  /\ UNCHANGED resolveOthers

\* resolve_symbols is entered (line 918): no symbol has an owner yet.
\* A file defines a symbol, refers to it, or does neither.
ResolveInit ==
  /\ rs_in_lib \in [RObjs -> BOOLEAN]
  /\ rs_as_needed \in BOOLEAN
  /\ rs_defs \in [RFiles -> SUBSET RSyms]
  /\ rs_refs \in [RObjs -> SUBSET RSyms]
  /\ \A f \in RObjs : rs_defs[f] \cap rs_refs[f] = {}
  /\ rs_undefined \in RUndefinedLists
  /\ rs_objs = [i \in 1..MaxRObjs |-> i]
  /\ rs_dsos = <<RDso>>
  /\ rs_alive = [f \in RFiles |-> AliveOnEntry(f)]
  /\ rs_symfile = [s \in RSyms |-> 0]
  /\ rs_roots = <<>>
  /\ rs_work = {}
  /\ rs_pub = {}
  /\ rs_u = 0
  /\ rs_pc = "publish_objs"
  /\ IdleBut("resolve")

ResolveNext ==
  \/ \E f \in RObjs : RsPublishObj(f)
  \/ RsObjsPublished
  \/ \E f \in RFiles : RsPublishDso(f)
  \/ RsRootsAlive
  \/ RsRootUndefined
  \/ RsStartMark
  \/ \E f \in RObjs : RsMarkLive(f)
  \/ RsErase

SpecResolve == ResolveInit /\ [][ResolveNext]_vars

\* The roots have been handed to liveness propagation.
RootsBuilt == rs_pc \in {"mark", "done"}

\* C6: the root list holds every object that was alive on entry and every
\* object that owns a symbol named by --undefined, and holds no object
\* twice.
C6_RootsCompleteNoDuplicates ==
  RootsBuilt =>
    /\ \A f \in RObjs : AliveOnEntry(f) => f \in Range(rs_roots)
    /\ \A i \in 1..Len(rs_undefined) :
         LET file == rs_symfile[rs_undefined[i]]
         IN (file # 0 /\ ~IsDso(file)) => file \in Range(rs_roots)
    /\ \A i, j \in 1..Len(rs_roots) : i # j => rs_roots[i] # rs_roots[j]

\* Two names of config.undefined are owned by one archive member that was
\* not alive on entry; another root was alive on entry.
C6_Witness ==
  /\ RootsBuilt
  /\ Len(rs_undefined) = 2
  /\ rs_symfile[rs_undefined[1]] = rs_symfile[rs_undefined[2]]
  /\ rs_symfile[rs_undefined[1]] \in RObjs
  /\ ~AliveOnEntry(rs_symfile[rs_undefined[1]])
  /\ Len(rs_roots) = 2

\* C7: after resolve_symbols, the file of every symbol is null or a file
\* that is alive and still in out::objs or out::dsos.
C7_SymbolOwnerAliveInSession ==
  rs_pc = "done" =>
    \A s \in RSyms :
      \/ rs_symfile[s] = 0
      \/ /\ rs_symfile[s] \in Range(rs_objs) \cup Range(rs_dsos)
         /\ rs_alive[rs_symfile[s]]

(***************************************************************************)
(* read_input_files, read_file and FileCache (src/main.cc:44-145, 743-765, *)
(* 811-832)                                                                *)
(*                                                                         *)
(* The command line names a relocatable object, a shared object, a fat     *)
(* archive of two members and a thin archive of two members, one of which  *)
(* is the relocatable object that can also be named directly.  A file does *)
(* not change between the preload pass and the main pass, so the name      *)
(* stands for the cache key (name, size, mtime).  Linker scripts and -l    *)
(* are left out: parse_linker_script and the library search are not part   *)
(* of the sources at hand.                                                 *)
(***************************************************************************)

\* The number of tokens of file_args.
MaxArgs == 4

ReadFlags == {"as-needed", "no-as-needed", "whole-archive", "no-whole-archive"}
ReadFiles == {"a.o", "x.so", "lib.a", "thin.a"}
CacheKeys == {"a.o", "t.o", "x.so", "lib.a"}

\* A mapped file, as far as get_file_type reads it: its size, what its
\* leading bytes are the beginning of (the ELF magic, the magic of a fat
\* or of a thin archive, other printable bytes, or bytes that are not
\* printable), and e_type, the field of the ELF header at offset 16.
MappedShapes ==
  [size : {0, 3, 4, 7, 8, 19, 20, 64},
   magic : {"elf", "arch", "thin", "print", "other"},
   e_type : {"ET_NONE", "ET_REL", "ET_EXEC", "ET_DYN", "ET_CORE"}]

\* is_text_file (lines 15-21): the magics of the archives begin with
\* printable bytes, the ELF magic with \177, which is not printable.
is_text_file(mb) == mb.size >= 4 /\ mb.magic \in {"arch", "thin", "print"}

\* get_file_type with the test for text before the tests for archives.
get_file_type_TextFirst(mb) ==
  IF mb.size >= 20 /\ mb.magic = "elf"
    THEN CASE mb.e_type = "ET_REL" -> "OBJ"
           [] mb.e_type = "ET_DYN" -> "DSO"
           [] OTHER -> "UNKNOWN"
  ELSE IF is_text_file(mb) THEN "TEXT"
  ELSE IF mb.size >= 8 /\ mb.magic = "arch" THEN "AR"
  ELSE IF mb.size >= 8 /\ mb.magic = "thin" THEN "THIN_AR"
  ELSE "UNKNOWN"

\* get_file_type (lines 25-42).
get_file_type(mb) ==
  IF mb.size >= 20 /\ mb.magic = "elf"
    THEN CASE mb.e_type = "ET_REL" -> "OBJ"
           [] mb.e_type = "ET_DYN" -> "DSO"
           [] OTHER -> "UNKNOWN"
  ELSE IF mb.size >= 8 /\ mb.magic = "arch" THEN "AR"
  ELSE IF mb.size >= 8 /\ mb.magic = "thin" THEN "THIN_AR"
  ELSE IF is_text_file(mb) THEN "TEXT"
  ELSE "UNKNOWN"

\* The contents of the files the command line names.
Mapped(name) ==
  CASE name = "x.so" -> [size |-> 64, magic |-> "elf", e_type |-> "ET_DYN"]
    [] name = "lib.a" -> [size |-> 64, magic |-> "arch", e_type |-> "ET_NONE"]
    [] name = "thin.a" -> [size |-> 64, magic |-> "thin", e_type |-> "ET_NONE"]
    [] OTHER -> [size |-> 64, magic |-> "elf", e_type |-> "ET_REL"]

\* read_fat_archive_members, read_archive_members and
\* read_thin_archive_members: the members of an archive, in archive order.
read_archive_members(name) ==
  IF name = "lib.a" THEN <<"m1.o", "m2.o">> ELSE <<"a.o", "t.o">>

\* The ReadContext a call of read_input_files starts with (line 744).
NewReadContext == [as_needed |-> FALSE, whole_archive |-> FALSE]

\* new_object_file without the whole-archive flag: every archive member is
\* in_lib.
new_object_file_NoFlag(name, archive_name, ctx, pos) ==
  [name |-> name, archive_name |-> archive_name,
   is_in_lib |-> archive_name # "", pos |-> pos]

\* new_object_file (lines 44-51); pos records the token that named the file.
new_object_file(name, archive_name, ctx, pos) ==
  [name |-> name, archive_name |-> archive_name,
   is_in_lib |-> (archive_name # "" /\ ~ctx.whole_archive), pos |-> pos]

\* new_shared_file (lines 53-57).
new_shared_file(name, as_needed, pos) ==
  [name |-> name, as_needed |-> as_needed, pos |-> pos]

\* FileCache::store (lines 62-65) of a run of objects under one key.
CacheStore(cache, key, objs) == [cache EXCEPT ![key] = @ \o objs]

\* FileCache::get (lines 67-72): the objects returned, and the cache left.
CacheGet(cache, key) == cache[key]
CacheCleared(cache, keys) ==
  [k \in CacheKeys |-> IF k \in keys THEN <<>> ELSE cache[k]]

\* The objects of the members of an archive, made in archive order.
MemberObjects(name, ctx, pos) ==
  LET members == read_archive_members(name)
  IN [i \in 1..Len(members) |-> new_object_file(members[i], name, ctx, pos)]

\* read_file while preloading (lines 88-110) on the state st.
ReadFilePreloading(st, name, pos) ==
  CASE get_file_type(Mapped(name)) = "OBJ" ->
         LET obj == new_object_file(name, "", st.ctx, pos)
         IN [st EXCEPT !.obj_cache = CacheStore(@, name, <<obj>>),
                       !.created = @ \cup {obj}]
    [] get_file_type(Mapped(name)) = "DSO" ->
         [st EXCEPT !.dso_cache =
            CacheStore(@, name,
                       <<new_shared_file(name, st.ctx.as_needed, pos)>>)]
    [] get_file_type(Mapped(name)) = "AR" ->
         LET objs == MemberObjects(name, st.ctx, pos)
         IN [st EXCEPT !.obj_cache = CacheStore(@, name, objs),
                       !.created = @ \cup Range(objs)]
    [] get_file_type(Mapped(name)) = "THIN_AR" ->
         LET members == read_archive_members(name)
             objs == MemberObjects(name, st.ctx, pos)
         IN [st EXCEPT
               !.obj_cache =
                 [k \in CacheKeys |->
                    IF \E i \in 1..Len(members) : members[i] = k
                      THEN @[k] \o
                           <<objs[CHOOSE i \in 1..Len(members) :
                                     members[i] = k]>>
                      ELSE @[k]],
               !.created = @ \cup Range(objs)]

\* read_file in the main pass (lines 111-144) on the state st.
ReadFileMain(st, name, pos) ==
  CASE get_file_type(Mapped(name)) = "OBJ" ->
         LET cached == CacheGet(st.obj_cache, name)
             obj == IF cached # <<>> THEN cached[1]
                    ELSE new_object_file(name, "", st.ctx, pos)
         IN [st EXCEPT !.obj_cache = CacheCleared(@, {name}),
                       !.objs = Append(@, obj),
                       !.created = @ \cup {obj}]
    [] get_file_type(Mapped(name)) = "DSO" ->
         LET cached == CacheGet(st.dso_cache, name)
             dso == IF cached # <<>> THEN cached[1]
                    ELSE new_shared_file(name, st.ctx.as_needed, pos)
         IN [st EXCEPT !.dso_cache = CacheCleared(@, {name}),
                       !.dsos = Append(@, dso)]
    [] get_file_type(Mapped(name)) = "AR" ->
         LET cached == CacheGet(st.obj_cache, name)
             objs == IF cached # <<>> THEN cached
                     ELSE MemberObjects(name, st.ctx, pos)
         IN [st EXCEPT !.obj_cache = CacheCleared(@, {name}),
                       !.objs = @ \o objs,
                       !.created = @ \cup Range(objs)]
    [] get_file_type(Mapped(name)) = "THIN_AR" ->
         LET members == read_archive_members(name)
             fresh == MemberObjects(name, st.ctx, pos)
             objs == [i \in 1..Len(members) |->
                        IF CacheGet(st.obj_cache, members[i]) # <<>>
                          THEN CacheGet(st.obj_cache, members[i])[1]
                          ELSE fresh[i]]
         IN [st EXCEPT !.obj_cache = CacheCleared(@, Range(members)),
                       !.objs = @ \o objs,
                       !.created = @ \cup Range(objs)]

\* One turn of the loop of read_input_files (lines 746-762).
ReadArg(st, arg, pos, preloading) ==
  CASE arg = "as-needed" -> [st EXCEPT !.ctx.as_needed = TRUE]
    [] arg = "no-as-needed" -> [st EXCEPT !.ctx.as_needed = FALSE]
    [] arg = "whole-archive" -> [st EXCEPT !.ctx.whole_archive = TRUE]
    [] arg = "no-whole-archive" -> [st EXCEPT !.ctx.whole_archive = FALSE]
    [] OTHER -> IF preloading THEN ReadFilePreloading(st, arg, pos)
                ELSE ReadFileMain(st, arg, pos)

\* read_input_files (lines 743-765) from token pos on.
RECURSIVE read_input_files(_, _, _, _)
read_input_files(st, args, pos, preloading) ==
  IF pos > Len(args) THEN st
  ELSE read_input_files(ReadArg(st, args[pos], pos, preloading),
                        args, pos + 1, preloading)

\* The state before any file is read: both caches and both lists empty.
ReadStart ==
  [ctx |-> NewReadContext,
   obj_cache |-> [k \in CacheKeys |-> <<>>],
   dso_cache |-> [k \in CacheKeys |-> <<>>],
   objs |-> <<>>, dsos |-> <<>>, created |-> {}]

ReadState ==
  [ctx |-> rd_ctx, obj_cache |-> rd_obj_cache, dso_cache |-> rd_dso_cache,
   objs |-> rd_objs, dsos |-> rd_dsos, created |-> rd_created]

ReadAssign(st) ==
  /\ rd_ctx' = st.ctx
  /\ rd_obj_cache' = st.obj_cache
  /\ rd_dso_cache' = st.dso_cache
  /\ rd_objs' = st.objs
  /\ rd_dsos' = st.dsos
  /\ rd_created' = st.created

\* Lines 749-756: the token is one of the four flags.
RdFlag ==
  /\ rd_pc \in {"preload", "main"}
  /\ rd_pos <= Len(rd_args)
  /\ rd_args[rd_pos] \in ReadFlags
  /\ ReadAssign(ReadArg(ReadState, rd_args[rd_pos], rd_pos,
                        rd_pc = "preload"))
  /\ rd_pos' = rd_pos + 1
  /\ UNCHANGED <<rd_args, rd_preload, rd_pc>>
  /\ UNCHANGED readOthers

\* Lines 759-761 with preloading set: the token is a file.
RdPreloadFile ==
  /\ rd_pc = "preload"
  /\ rd_pos <= Len(rd_args)
  /\ rd_args[rd_pos] \in ReadFiles
  /\ ReadAssign(ReadArg(ReadState, rd_args[rd_pos], rd_pos, TRUE))
  /\ rd_pos' = rd_pos + 1
  /\ UNCHANGED <<rd_args, rd_preload, rd_pc>>
  /\ UNCHANGED readOthers

\* Lines 759-761 with preloading clear: the token is a file.
RdMainFile ==
  /\ rd_pc = "main"
  /\ rd_pos <= Len(rd_args)
  /\ rd_args[rd_pos] \in ReadFiles
  /\ ReadAssign(ReadArg(ReadState, rd_args[rd_pos], rd_pos, FALSE))
  /\ rd_pos' = rd_pos + 1
  /\ UNCHANGED <<rd_args, rd_preload, rd_pc>>
  /\ UNCHANGED readOthers

\* Lines 814-816, 828-832: the preload pass returns; the main pass starts
\* with a ReadContext of its own and the caches the preload pass filled.
RdPreloadReturn ==
  /\ rd_pc = "preload"
  /\ rd_pos > Len(rd_args)
  /\ rd_ctx' = NewReadContext
  /\ rd_pos' = 1
  /\ rd_pc' = "main"
  /\ UNCHANGED <<rd_args, rd_preload, rd_obj_cache, rd_dso_cache, rd_objs,
                 rd_dsos, rd_created>>
  /\ UNCHANGED readOthers

\* Line 832: the main pass returns.
RdMainReturn ==
  /\ rd_pc = "main"
  /\ rd_pos > Len(rd_args)
  /\ rd_pc' = "done"
  /\ UNCHANGED <<rd_args, rd_preload, rd_pos, rd_ctx, rd_obj_cache,
                 rd_dso_cache, rd_objs, rd_dsos, rd_created>>
  /\ UNCHANGED readOthers

\* Lines 811-816: with config.preload the files are read twice.
ReadInit ==
  /\ rd_args \in SeqsUpTo(ReadFlags \cup ReadFiles, MaxArgs)
  /\ rd_preload \in BOOLEAN
  /\ rd_pos = 1
  /\ rd_ctx = ReadStart.ctx
  /\ rd_obj_cache = ReadStart.obj_cache
  /\ rd_dso_cache = ReadStart.dso_cache
  /\ rd_objs = ReadStart.objs
  /\ rd_dsos = ReadStart.dsos
  /\ rd_created = ReadStart.created
  /\ rd_pc = IF rd_preload THEN "preload" ELSE "main"
  /\ IdleBut("read")

ReadNext ==
  \/ RdFlag
  \/ RdPreloadFile
  \/ RdMainFile
  \/ RdPreloadReturn
  \/ RdMainReturn

SpecRead == ReadInit /\ [][ReadNext]_vars

\* The whole-archive flag the command line puts in effect at token pos:
\* that of the last --whole-archive / --no-whole-archive before it, off if
\* there is none.
WholeArchiveAt(args, pos) ==
  LET flags == {i \in 1..(pos - 1) :
                  args[i] \in {"whole-archive", "no-whole-archive"}}
  IN /\ flags # {}
     /\ args[CHOOSE i \in flags : \A j \in flags : j <= i] = "whole-archive"

\* C8: an object file is created in_lib iff it is an archive member read
\* while the whole-archive flag set by the command line so far is off.
C8_InLibIffMemberOutsideWholeArchive ==
  \A obj \in rd_created :
    obj.is_in_lib <=>
      (obj.archive_name # "" /\ ~WholeArchiveAt(rd_args, obj.pos))

\* An archive is read under --whole-archive and again after
\* --no-whole-archive: its members are first born alive, then dormant.
C8_Witness ==
  /\ rd_pc = "done"
  /\ \E o1, o2 \in rd_created :
       /\ o1.archive_name # "" /\ ~o1.is_in_lib
       /\ o2.archive_name = o1.archive_name /\ o2.is_in_lib
       /\ o1.pos < o2.pos

\* What a list of files shows of its files: name and tag, in order.
ObjTags(objs) ==
  [i \in 1..Len(objs) |-> <<objs[i].name, objs[i].is_in_lib>>]
DsoTags(dsos) ==
  [i \in 1..Len(dsos) |-> <<dsos[i].name, dsos[i].as_needed>>]

\* C9: after the main pass, out::objs and out::dsos name the files, as
\* often, in the order and with the tags that the main pass alone, with
\* preloading disabled, gives for the same command line.
C9_PreloadSameAsNoPreload ==
  rd_pc = "done" =>
    LET alone == read_input_files(ReadStart, rd_args, 1, FALSE)
    IN /\ ObjTags(rd_objs) = ObjTags(alone.objs)
       /\ DsoTags(rd_dsos) = DsoTags(alone.dsos)

(***************************************************************************)
(* InputSection::scan_relocations (src/input_sections.cc:135-215) and what *)
(* follows it in scan_rels and main (src/main.cc:408-487, 1083-1118)       *)
(*                                                                         *)
(* One section of a live object is scanned.  Its relocations refer to two  *)
(* symbols: the first is of any kind, the second is an imported function   *)
(* such as __tls_get_addr.  Every TLSGD and TLSLD relocation is followed   *)
(* by a PLT32 relocation, as lines 181 and 190 assert.  The need flags of  *)
(* a symbol are set under the mutex of the symbol, one relocation at a     *)
(* time, so the sections of other files only add flags of their own.       *)
(***************************************************************************)

\* The number of relocations of the section.
MaxRels == 2

ScanSyms == {1, 2}

DirectTypes ==
  {"R_X86_64_8", "R_X86_64_16", "R_X86_64_32", "R_X86_64_32S", "R_X86_64_64",
   "R_X86_64_PC8", "R_X86_64_PC16", "R_X86_64_PC32", "R_X86_64_PC64"}
GotTypes ==
  {"R_X86_64_GOT32", "R_X86_64_GOTPC32", "R_X86_64_GOTPCREL",
   "R_X86_64_GOTPCRELX", "R_X86_64_REX_GOTPCRELX"}
TpoffTypes ==
  {"R_X86_64_TPOFF32", "R_X86_64_TPOFF64", "R_X86_64_DTPOFF32",
   "R_X86_64_DTPOFF64"}
TlsPairTypes == {"R_X86_64_TLSGD", "R_X86_64_TLSLD"}

\* The relocation types the switch of scan_relocations names, and one it
\* does not name.
KnownRelTypes ==
  {"R_X86_64_NONE", "R_X86_64_PLT32", "R_X86_64_GOTTPOFF"}
    \cup DirectTypes \cup GotTypes \cup TpoffTypes \cup TlsPairTypes
RelTypes == KnownRelTypes \cup {"R_X86_64_SIZE32"}

\* The relocations of the section: of any type against the first symbol;
\* a call, an address and a GOT reference against the second.
ScanRelas ==
  [r_type : RelTypes, r_sym : {1}]
  \cup [r_type : {"R_X86_64_PLT32", "R_X86_64_64", "R_X86_64_GOTPCREL"},
        r_sym : {2}]

\* A symbol without a file, a placeholder, and the resolved symbols.
SymShapes ==
  {[file_null |-> TRUE, is_placeholder |-> FALSE, is_imported |-> FALSE,
    type |-> "STT_NOTYPE"],
   [file_null |-> FALSE, is_placeholder |-> TRUE, is_imported |-> FALSE,
    type |-> "STT_NOTYPE"]}
  \cup [file_null : {FALSE}, is_placeholder : {FALSE}, is_imported : BOOLEAN,
        type : {"STT_OBJECT", "STT_FUNC", "STT_GNU_IFUNC"}]

ImportedFunction ==
  [file_null |-> FALSE, is_placeholder |-> FALSE, is_imported |-> TRUE,
   type |-> "STT_FUNC"]

\* Line 143: !sym.file || sym.is_placeholder
SymUnresolved(sym) == sym.file_null \/ sym.is_placeholder

\* Lines 181, 190: the relocation after a TLSGD or TLSLD is a PLT32.
TlsPairsWellFormed(rels) ==
  \A i \in 1..Len(rels) :
    rels[i].r_type \in TlsPairTypes =>
      i < Len(rels) /\ rels[i + 1].r_type = "R_X86_64_PLT32"

\* PLT32 with the test of line 174 left out.
Plt32Needs_Always(sym) == {"plt"}

\* Lines 173-178: PLT32.
Plt32Needs(sym) ==
  IF sym.is_imported \/ sym.type = "STT_GNU_IFUNC" THEN {"plt"} ELSE {}

\* TLSGD / TLSLD without the else branch of lines 185-187 and 194-196.
TlsSkipsPair_Never(sym) == FALSE

\* Lines 182-187, 191-196: i++ when the symbol is not imported.
TlsSkipsPair(sym) == ~sym.is_imported

\* What one turn of the loop does (lines 139-213): the need flags it sets
\* on the symbol, whether it skips the next relocation, whether it sets
\* file->has_error, and whether it reports an error (line 211; error() of
\* mold.h records the error for the next checkpoint).
ScanRelocation(rel, sym) ==
  LET turn(needs, skip) ==
        [needs |-> needs, skip |-> skip, has_error |-> FALSE,
         error |-> FALSE]
  IN IF SymUnresolved(sym)
       THEN [needs |-> {}, skip |-> FALSE, has_error |-> TRUE,
             error |-> FALSE]
     ELSE IF rel.r_type = "R_X86_64_NONE" THEN turn({}, FALSE)
     ELSE IF rel.r_type \in DirectTypes
       THEN turn(IF sym.is_imported
                   THEN IF sym.type = "STT_OBJECT"
                          THEN {"copyrel"} ELSE {"plt"}
                   ELSE {}, FALSE)
     ELSE IF rel.r_type \in GotTypes THEN turn({"got"}, FALSE)
     ELSE IF rel.r_type = "R_X86_64_PLT32" THEN turn(Plt32Needs(sym), FALSE)
     ELSE IF rel.r_type = "R_X86_64_TLSGD"
       THEN turn(IF sym.is_imported THEN {"tlsgd"} ELSE {},
                 TlsSkipsPair(sym))
     ELSE IF rel.r_type = "R_X86_64_TLSLD"
       THEN turn(IF sym.is_imported THEN {"tlsld"} ELSE {},
                 TlsSkipsPair(sym))
     ELSE IF rel.r_type \in TpoffTypes THEN turn({}, FALSE)
     ELSE IF rel.r_type = "R_X86_64_GOTTPOFF"
       THEN turn({"gottpoff"}, FALSE)
     ELSE [needs |-> {}, skip |-> FALSE, has_error |-> FALSE,
           error |-> TRUE]

\* Lines 447-486 of scan_rels: the tables a symbol with these need flags is
\* added to.
SlotsOf(needs) ==
  (IF "got" \in needs THEN {"got"} ELSE {})
  \cup (IF "plt" \in needs
          THEN IF "got" \in needs THEN {"pltgot"} ELSE {"plt"}
          ELSE {})
  \cup (IF "gottpoff" \in needs THEN {"gottpoff"} ELSE {})
  \cup (IF "tlsgd" \in needs THEN {"tlsgd"} ELSE {})
  \cup (IF "tlsld" \in needs THEN {"tlsld"} ELSE {})
  \cup (IF "copyrel" \in needs THEN {"copyrel", "dynsym"} ELSE {})

\* Error::checkpoint(): the link exits if an error has been recorded.
\* file->has_error is not such a record.
ScanCheckpointAborts == sc_errors

\* Lines 136-137: the section is not SHF_ALLOC.
ScanNotAlloc ==
  /\ sc_pc = "scan"
  /\ ~sc_alloc
  /\ sc_pc' = "checkpoint"
  /\ UNCHANGED <<sc_alloc, sc_rels, sc_sym, sc_i, sc_scanned, sc_needs,
                 sc_has_error, sc_errors, sc_slots, sc_buf>>
  /\ UNCHANGED scanOthers

\* Lines 139-213: one turn of the loop.
ScanTurn ==
  /\ sc_pc = "scan"
  /\ sc_alloc
  /\ sc_i <= Len(sc_rels)
  /\ LET rel == sc_rels[sc_i]
         turn == ScanRelocation(rel, sc_sym[rel.r_sym])
     IN /\ sc_needs' =
             [sc_needs EXCEPT ![rel.r_sym] = @ \cup turn.needs]
        /\ sc_has_error' = (sc_has_error \/ turn.has_error)
        /\ sc_errors' = (sc_errors \/ turn.error)
        /\ sc_i' = IF turn.skip THEN sc_i + 2 ELSE sc_i + 1
  /\ sc_scanned' = sc_scanned \cup {sc_i}
  /\ UNCHANGED <<sc_alloc, sc_rels, sc_sym, sc_slots, sc_buf, sc_pc>>
  /\ UNCHANGED scanOthers

\* Line 139: i has reached rels.size(); the parallel loop of scan_rels
\* returns (line 414).
ScanReturn ==
  /\ sc_pc = "scan"
  /\ sc_alloc
  /\ sc_i > Len(sc_rels)
  /\ sc_pc' = "checkpoint"
  /\ UNCHANGED <<sc_alloc, sc_rels, sc_sym, sc_i, sc_scanned, sc_needs,
                 sc_has_error, sc_errors, sc_slots, sc_buf>>
  /\ UNCHANGED scanOthers

\* Line 417: Error::checkpoint().
ScanCheckpoint ==
  /\ sc_pc = "checkpoint"
  /\ sc_pc' = IF ScanCheckpointAborts THEN "aborted" ELSE "assign"
  /\ UNCHANGED <<sc_alloc, sc_rels, sc_sym, sc_i, sc_scanned, sc_needs,
                 sc_has_error, sc_errors, sc_slots, sc_buf>>
  /\ UNCHANGED scanOthers

\* Lines 419-486: the symbols that have a flag and an owner among the files
\* of the link are given their slots.
ScanAssign ==
  /\ sc_pc = "assign"
  /\ sc_slots' =
       [s \in ScanSyms |->
          IF SymUnresolved(sc_sym[s]) THEN {} ELSE SlotsOf(sc_needs[s])]
  /\ sc_pc' = "output"
  /\ UNCHANGED <<sc_alloc, sc_rels, sc_sym, sc_i, sc_scanned, sc_needs,
                 sc_has_error, sc_errors, sc_buf>>
  /\ UNCHANGED scanOthers

\* main, lines 1104-1118: the output file is created and the chunks are
\* copied to its buffer.
ScanOutput ==
  /\ sc_pc = "output"
  /\ sc_buf' = TRUE
  /\ sc_pc' = "written"
  /\ UNCHANGED <<sc_alloc, sc_rels, sc_sym, sc_i, sc_scanned, sc_needs,
                 sc_has_error, sc_errors, sc_slots>>
  /\ UNCHANGED scanOthers

\* scan_relocations is entered for the section: no flag is set yet.
ScanInit ==
  /\ sc_alloc \in BOOLEAN
  /\ sc_rels \in SeqsUpTo(ScanRelas, MaxRels)
  /\ TlsPairsWellFormed(sc_rels)
  /\ sc_sym \in [ScanSyms -> SymShapes]
  /\ sc_sym[2] = ImportedFunction
  /\ sc_i = 1
  /\ sc_scanned = {}
  /\ sc_needs = [s \in ScanSyms |-> {}]
  /\ sc_has_error = FALSE
  /\ sc_errors = FALSE
  /\ sc_slots = [s \in ScanSyms |-> {}]
  /\ sc_buf = FALSE
  /\ sc_pc = "scan"
  /\ IdleBut("scan")

ScanNext ==
  \/ ScanNotAlloc
  \/ ScanTurn
  \/ ScanReturn
  \/ ScanCheckpoint
  \/ ScanAssign
  \/ ScanOutput

SpecScan == ScanInit /\ [][ScanNext]_vars

\* C12: when a relocation of an allocated section refers to a symbol whose
\* file is null or which is a placeholder, the link does not get past the
\* checkpoint that follows the scan: no symbol is given a slot and the
\* output buffer is neither created nor written.
C12_UnresolvedReferenceAborts ==
  sc_has_error =>
    /\ sc_pc \in {"scan", "checkpoint", "aborted"}
    /\ \A s \in ScanSyms : sc_slots[s] = {}
    /\ ~sc_buf

\* The need flags the claim gives for a relocation of a type against a
\* resolved symbol.
ClaimedNeeds(r_type, sym) ==
  CASE r_type \in DirectTypes ->
         IF ~sym.is_imported THEN {}
         ELSE IF sym.type = "STT_OBJECT" THEN {"copyrel"} ELSE {"plt"}
    [] r_type \in GotTypes -> {"got"}
    [] r_type = "R_X86_64_PLT32" ->
         IF sym.is_imported \/ sym.type = "STT_GNU_IFUNC"
           THEN {"plt"} ELSE {}
    [] r_type = "R_X86_64_GOTTPOFF" -> {"gottpoff"}
    [] r_type = "R_X86_64_TLSGD" -> IF sym.is_imported THEN {"tlsgd"} ELSE {}
    [] r_type = "R_X86_64_TLSLD" -> IF sym.is_imported THEN {"tlsld"} ELSE {}
    [] OTHER -> {}

\* C13: the need flags of a symbol are exactly those the table gives for
\* the relocations scanned so far against it, when it is resolved; the
\* relocations of a section that is not allocated set nothing.
C13_NeedFlagsAsTable ==
  \A s \in ScanSyms :
    sc_needs[s] =
      IF ~sc_alloc \/ SymUnresolved(sc_sym[s]) THEN {}
      ELSE UNION {ClaimedNeeds(sc_rels[i].r_type, sc_sym[s]) :
                    i \in {j \in sc_scanned : sc_rels[j].r_sym = s}}

\* A PLT32 against a GNU_IFUNC symbol that is not imported and a direct
\* relocation against the imported function have both asked for a PLT
\* entry.
C13_Witness ==
  /\ sc_pc = "checkpoint"
  /\ sc_alloc
  /\ Len(sc_rels) = 2
  /\ sc_rels[1] = [r_type |-> "R_X86_64_PLT32", r_sym |-> 1]
  /\ sc_rels[2] = [r_type |-> "R_X86_64_64", r_sym |-> 2]
  /\ sc_sym[1].type = "STT_GNU_IFUNC" /\ ~sc_sym[1].is_imported
  /\ sc_needs[1] = {"plt"} /\ sc_needs[2] = {"plt"}

\* The need flag of a TLSGD / TLSLD relocation.
TlsFlag(r_type) == IF r_type = "R_X86_64_TLSGD" THEN "tlsgd" ELSE "tlsld"

\* C14: a scanned TLSGD (TLSLD) relocation against an imported symbol has
\* set needs_tlsgd (needs_tlsld) and the relocation after it is scanned;
\* against a resolved symbol that is not imported it has set neither flag
\* and the relocation after it is never scanned.
C14_TlsPairSkippedIffNotImported ==
  \A i \in sc_scanned :
    LET rel == sc_rels[i]
        sym == sc_sym[rel.r_sym]
    IN (rel.r_type \in TlsPairTypes /\ ~SymUnresolved(sym)) =>
         IF sym.is_imported
           THEN /\ TlsFlag(rel.r_type) \in sc_needs[rel.r_sym]
                /\ sc_i = i + 1 \/ (i + 1) \in sc_scanned
           ELSE /\ sc_needs[rel.r_sym] \cap {"tlsgd", "tlsld"} = {}
                /\ sc_i > i + 1
                /\ (i + 1) \notin sc_scanned

\* A TLSGD against a symbol that is not imported was scanned and the PLT32
\* after it, against the imported function, was skipped: the function has
\* no need flag.
C14_Witness ==
  /\ sc_pc = "checkpoint"
  /\ sc_alloc
  /\ Len(sc_rels) = 2
  /\ sc_rels[1] = [r_type |-> "R_X86_64_TLSGD", r_sym |-> 1]
  /\ sc_rels[2] = [r_type |-> "R_X86_64_PLT32", r_sym |-> 2]
  /\ ~SymUnresolved(sc_sym[1]) /\ ~sc_sym[1].is_imported
  /\ sc_scanned = {1}
  /\ sc_needs[2] = {}

(***************************************************************************)
(* InputSection::copy_buf (src/input_sections.cc:8-129)                    *)
(*                                                                         *)
(* A 64-bit value is four 16-bit limbs, least significant first; sums and  *)
(* differences are taken modulo 2^64 as the u64 arithmetic of the code     *)
(* does, and a store through u32*, u16* or u8* keeps the low bytes.  The   *)
(* buffer is the part of out::buf that starts at base; relocation i has    *)
(* r_offset 8i - 4, which leaves room for the 16 bytes a relaxed TLSGD     *)
(* writes from loc - 4 on and puts the relocation after it at loc + 8.     *)
(***************************************************************************)

\* The number of relocations of the section.
MaxCopyRels == 2

BufSize == 8 * MaxCopyRels + 8

\* rel.r_offset of relocation i.
ROffset(i) == 8 * i - 4

Limb == 65536

Add64(a, b) ==
  LET s1 == a[1] + b[1]
      s2 == a[2] + b[2] + (s1 \div Limb)
      s3 == a[3] + b[3] + (s2 \div Limb)
      s4 == a[4] + b[4] + (s3 \div Limb)
  IN <<s1 % Limb, s2 % Limb, s3 % Limb, s4 % Limb>>

Neg64(a) ==
  Add64(<<Limb - 1 - a[1], Limb - 1 - a[2], Limb - 1 - a[3],
          Limb - 1 - a[4]>>, <<1, 0, 0, 0>>)

Sub64(a, b) == Add64(a, Neg64(b))

\* The u64 of a number below 2^31.
U64(n) == <<n % Limb, n \div Limb, 0, 0>>

\* The bytes of a u64 in memory, lowest address first (x86-64).
Bytes64(a) ==
  <<a[1] % 256, a[1] \div 256, a[2] % 256, a[2] \div 256,
    a[3] % 256, a[3] \div 256, a[4] % 256, a[4] \div 256>>

\* *(uN *)loc = val: the low width bytes of val.
StoreBytes(val, width) == SubSeq(Bytes64(val), 1, width)

\* The buffer after bytes have been written from index at on.
Store(buf, at, bytes) ==
  [k \in DOMAIN buf |->
     IF at <= k /\ k < at + Len(bytes) THEN bytes[k - at + 1] ELSE buf[k]]

\* Lines 78-81 and 92-94: the instructions a relaxed TLSGD / TLSLD writes.
TlsgdInsn == <<100, 72, 139, 4, 37, 0, 0, 0, 0, 72, 141, 128, 0, 0, 0, 0>>
TlsldInsn == <<102, 102, 102, 100, 72, 139, 4, 37, 0, 0, 0, 0>>

\* The contents of the section, file->get_string(shdr).
SectionData == [k \in 0..(BufSize - 1) |-> 204]

\* The values the formulas read: two layouts, a small executable and one
\* whose addresses and addend carry into and borrow from the high bytes;
\* the relocations of the second may refer to a string piece.
CopyEnvs ==
  {[S |-> U64(4198432), A |-> Neg64(U64(4)), sh_addr |-> U64(4202496),
    L |-> U64(4206608), got_addr |-> U64(4210696), GOT |-> U64(4210688),
    tls_end |-> U64(4214784), gottpoff_addr |-> U64(4210704),
    tlsgd_addr |-> U64(4210712), tlsld_addr |-> U64(4210728),
    piece_addr |-> U64(4218883), piece_addend |-> U64(5)],
   [S |-> <<4660, 32768, 65535, 65535>>, A |-> <<65535, 32767, 0, 0>>,
    sh_addr |-> <<65528, 65535, 0, 0>>,
    L |-> <<255, 65280, 1, 0>>, got_addr |-> <<8, 0, 1, 0>>,
    GOT |-> <<65520, 65535, 0, 0>>,
    tls_end |-> <<0, 1, 2, 0>>, gottpoff_addr |-> <<16, 0, 1, 0>>,
    tlsgd_addr |-> <<24, 0, 1, 0>>, tlsld_addr |-> <<40, 0, 1, 0>>,
    piece_addr |-> <<65535, 65535, 65535, 32767>>,
    piece_addend |-> <<513, 0, 0, 32768>>]}

\* A symbol without a file, and the symbols with one: with or without a
\* PLT entry (plt_idx), with or without TLS slots (tlsgd_idx, tlsld_idx).
CopySymShapes ==
  {[file_null |-> TRUE, has_plt |-> FALSE, has_tlsgd |-> FALSE,
    has_tlsld |-> FALSE]}
  \cup {[file_null |-> FALSE, has_plt |-> plt, has_tlsgd |-> tls,
         has_tlsld |-> tls] : plt \in BOOLEAN, tls \in BOOLEAN}

\* P taken as the address of the section, without rel.r_offset.
MacroP_NoOffset(env, i) == env.sh_addr

\* The macros of lines 29-34.
MacroS(env, piece) == IF piece THEN env.piece_addr ELSE env.S
MacroA(env, piece) == IF piece THEN env.piece_addend ELSE env.A
MacroP(env, i) == Add64(env.sh_addr, U64(ROffset(i)))
MacroG(env) == Sub64(env.got_addr, env.GOT)

\* The value of line 82 without the 4 that follows the addend.
TlsgdTpoff_NoBias(S, A, tls_end) == Add64(Sub64(S, tls_end), A)

\* Line 82: S - out::tls_end + A + 4.
TlsgdTpoff(S, A, tls_end) == Add64(Add64(Sub64(S, tls_end), A), U64(4))

\* What one turn of the loop does (lines 19-118) for relocation i of type
\* r_type: the buffer it leaves, whether it skips the next relocation, and
\* whether it reports an error (line 117).
CopyRelocation(r_type, i, buf, sym, env, piece) ==
  LET loc == ROffset(i)
      S == MacroS(env, piece)
      A == MacroA(env, piece)
      P == MacroP(env, i)
      G == MacroG(env)
      SA == Add64(S, A)
      SAP == Sub64(Add64(S, A), P)
      put(val, width) ==
        [buf |-> Store(buf, loc, StoreBytes(val, width)), skip |-> FALSE,
         error |-> FALSE]
      same == [buf |-> buf, skip |-> FALSE, error |-> FALSE]
  IN IF sym.file_null THEN same
     ELSE CASE r_type = "R_X86_64_NONE" -> same
       [] r_type = "R_X86_64_64" -> put(SA, 8)
       [] r_type = "R_X86_64_PC32" -> put(SAP, 4)
       [] r_type = "R_X86_64_GOT32" -> put(Add64(G, A), 8)
       [] r_type = "R_X86_64_PLT32" ->
            IF ~sym.has_plt THEN put(SAP, 4)
            ELSE put(Sub64(Add64(env.L, A), P), 4)
       [] r_type \in {"R_X86_64_GOTPCREL", "R_X86_64_GOTPCRELX",
                      "R_X86_64_REX_GOTPCRELX"} ->
            put(Sub64(Add64(Add64(G, env.GOT), A), P), 4)
       [] r_type \in {"R_X86_64_32", "R_X86_64_32S"} -> put(SA, 4)
       [] r_type = "R_X86_64_16" -> put(SA, 2)
       [] r_type = "R_X86_64_PC16" -> put(SAP, 2)
       [] r_type = "R_X86_64_8" -> put(SA, 1)
       [] r_type = "R_X86_64_PC8" -> put(SAP, 1)
       [] r_type = "R_X86_64_TLSGD" ->
            IF ~sym.has_tlsgd
              THEN [buf |->
                      Store(Store(buf, loc - 4, TlsgdInsn), loc + 8,
                            StoreBytes(TlsgdTpoff(S, A, env.tls_end), 4)),
                    skip |-> TRUE, error |-> FALSE]
              ELSE put(Sub64(Add64(env.tlsgd_addr, A), P), 4)
       [] r_type = "R_X86_64_TLSLD" ->
            IF ~sym.has_tlsld
              THEN [buf |-> Store(buf, loc - 3, TlsldInsn), skip |-> TRUE,
                    error |-> FALSE]
              ELSE put(Sub64(Add64(env.tlsld_addr, A), P), 4)
       [] r_type \in {"R_X86_64_DTPOFF32", "R_X86_64_TPOFF32"} ->
            put(Sub64(SA, env.tls_end), 4)
       [] r_type \in {"R_X86_64_DTPOFF64", "R_X86_64_TPOFF64"} ->
            put(Sub64(SA, env.tls_end), 8)
       [] r_type = "R_X86_64_GOTTPOFF" ->
            put(Sub64(Add64(env.gottpoff_addr, A), P), 4)
       [] r_type = "R_X86_64_PC64" -> put(SAP, 8)
       [] r_type = "R_X86_64_GOTPC32" -> put(Sub64(Add64(env.GOT, A), P), 4)
       [] OTHER -> [buf |-> buf, skip |-> FALSE, error |-> TRUE]

\* Lines 9-10: a section without contents is not copied.
CopyNothing ==
  /\ cp_pc = "enter"
  /\ cp_nobits
  /\ cp_pc' = "done"
  /\ UNCHANGED <<cp_nobits, cp_rels, cp_piece, cp_sym, cp_env, cp_buf,
                 cp_prev, cp_last, cp_i, cp_errors>>
  /\ UNCHANGED copyOthers

\* Lines 12-14: the contents of the section are copied to the buffer.
CopyData ==
  /\ cp_pc = "enter"
  /\ ~cp_nobits
  /\ cp_buf' = SectionData
  /\ cp_prev' = SectionData
  /\ cp_pc' = "relocs"
  /\ UNCHANGED <<cp_nobits, cp_rels, cp_piece, cp_sym, cp_env, cp_last,
                 cp_i, cp_errors>>
  /\ UNCHANGED copyOthers

\* Lines 19-118: one turn of the loop.
CopyTurn ==
  /\ cp_pc = "relocs"
  /\ cp_i <= Len(cp_rels)
  /\ LET turn == CopyRelocation(cp_rels[cp_i], cp_i, cp_buf, cp_sym, cp_env,
                                cp_piece)
     IN /\ cp_buf' = turn.buf
        /\ cp_i' = IF turn.skip THEN cp_i + 2 ELSE cp_i + 1
        /\ cp_errors' = (cp_errors \/ turn.error)
  /\ cp_prev' = cp_buf
  /\ cp_last' = cp_i
  /\ UNCHANGED <<cp_nobits, cp_rels, cp_piece, cp_sym, cp_env, cp_pc>>
  /\ UNCHANGED copyOthers

\* Lines 19, 127-129: i has reached rels.size().
CopyReturn ==
  /\ cp_pc = "relocs"
  /\ cp_i > Len(cp_rels)
  /\ cp_pc' = "done"
  /\ UNCHANGED <<cp_nobits, cp_rels, cp_piece, cp_sym, cp_env, cp_buf,
                 cp_prev, cp_last, cp_i, cp_errors>>
  /\ UNCHANGED copyOthers

\* copy_buf is entered: the buffer holds what the file had before.
CopyInit ==
  /\ cp_nobits \in BOOLEAN
  /\ cp_rels \in SeqsUpTo(RelTypes, MaxCopyRels)
  /\ cp_piece \in BOOLEAN
  /\ cp_sym \in CopySymShapes
  /\ cp_env \in CopyEnvs
  /\ cp_piece => cp_env.S # U64(4198432)
  /\ cp_nobits =>
       /\ cp_rels = <<>> /\ ~cp_piece /\ cp_sym.file_null
       /\ cp_env.S = U64(4198432)
  /\ cp_buf = [k \in 0..(BufSize - 1) |-> 0]
  /\ cp_prev = cp_buf
  /\ cp_last = 0
  /\ cp_i = 1
  /\ cp_errors = FALSE
  /\ cp_pc = "enter"
  /\ IdleBut("copy")

CopyNext ==
  \/ CopyNothing
  \/ CopyData
  \/ CopyTurn
  \/ CopyReturn

SpecCopy == CopyInit /\ [][CopyNext]_vars

\* The little-endian encoding, on width bytes, of x + y taken modulo
\* 2^(8 * width): the bytes are added from the lowest with a carry, and the
\* carry out of the last byte is dropped.
RECURSIVE AddLE(_, _, _)
AddLE(x, y, carry) ==
  IF x = <<>> THEN <<>>
  ELSE <<(x[1] + y[1] + carry) % 256>>
       \o AddLE(Tail(x), Tail(y), (x[1] + y[1] + carry) \div 256)

\* The encoding of -x modulo 2^(8 * width).
NegLE(x) ==
  AddLE([k \in 1..Len(x) |-> 255 - x[k]], [k \in 1..Len(x) |-> 0], 1)

PlusLE(x, y) == AddLE(x, y, 0)
MinusLE(x, y) == AddLE(x, NegLE(y), 0)

\* The encoding of a value modulo 2^(8 * width).
LE(val, width) == SubSeq(Bytes64(val), 1, width)

\* The formula and the width the claim gives for a type: the bytes the
\* relocation of index i is to leave at its site; <<>> for no write.
ClaimedBytes(r_type, i, sym, env, piece) ==
  LET S(w) == LE(IF piece THEN env.piece_addr ELSE env.S, w)
      A(w) == LE(IF piece THEN env.piece_addend ELSE env.A, w)
      P(w) == PlusLE(LE(env.sh_addr, w), LE(U64(ROffset(i)), w))
      G(w) == MinusLE(LE(env.got_addr, w), LE(env.GOT, w))
      GOT(w) == LE(env.GOT, w)
      SA(w) == PlusLE(S(w), A(w))
      SAP(w) == MinusLE(SA(w), P(w))
  IN CASE r_type = "R_X86_64_64" -> SA(8)
       [] r_type = "R_X86_64_PC64" -> SAP(8)
       [] r_type = "R_X86_64_GOT32" -> PlusLE(G(8), A(8))
       [] r_type \in {"R_X86_64_32", "R_X86_64_32S"} -> SA(4)
       [] r_type = "R_X86_64_PC32" -> SAP(4)
       [] r_type = "R_X86_64_PLT32" ->
            MinusLE(PlusLE(IF sym.has_plt THEN LE(env.L, 4) ELSE S(4), A(4)),
                    P(4))
       [] r_type \in {"R_X86_64_GOTPCREL", "R_X86_64_GOTPCRELX",
                      "R_X86_64_REX_GOTPCRELX"} ->
            MinusLE(PlusLE(PlusLE(G(4), GOT(4)), A(4)), P(4))
       [] r_type = "R_X86_64_GOTPC32" -> MinusLE(PlusLE(GOT(4), A(4)), P(4))
       [] r_type = "R_X86_64_GOTTPOFF" ->
            MinusLE(PlusLE(LE(env.gottpoff_addr, 4), A(4)), P(4))
       [] r_type = "R_X86_64_16" -> SA(2)
       [] r_type = "R_X86_64_PC16" -> SAP(2)
       [] r_type = "R_X86_64_8" -> SA(1)
       [] r_type = "R_X86_64_PC8" -> SAP(1)
       [] r_type \in {"R_X86_64_TPOFF32", "R_X86_64_DTPOFF32"} ->
            MinusLE(SA(4), LE(env.tls_end, 4))
       [] r_type \in {"R_X86_64_TPOFF64", "R_X86_64_DTPOFF64"} ->
            MinusLE(SA(8), LE(env.tls_end, 8))
       [] OTHER -> <<>>

\* C15: a turn of the loop for a relocation of a type other than TLSGD and
\* TLSLD, against a symbol with a file, leaves at the relocation site the
\* bytes of the claimed formula, and leaves every other byte as it was.
C15_SiteHoldsFormulaBytes ==
  (cp_last # 0 /\ ~cp_sym.file_null
     /\ cp_rels[cp_last] \notin TlsPairTypes) =>
    cp_buf = Store(cp_prev, ROffset(cp_last),
                   ClaimedBytes(cp_rels[cp_last], cp_last, cp_sym, cp_env,
                                cp_piece))

\* A PC32 against a string piece, whose sum wraps around 2^32, has been
\* applied after a 64.
C15_Witness ==
  /\ cp_pc = "done"
  /\ cp_rels = <<"R_X86_64_64", "R_X86_64_PC32">>
  /\ cp_piece
  /\ cp_env.piece_addend = <<513, 0, 0, 32768>>
  /\ cp_last = 2
  /\ cp_buf[4] = 0 /\ cp_buf[5] = 2
  /\ cp_buf[12] = 252 /\ cp_buf[13] = 1 /\ cp_buf[16] = 204

\* C16: a turn of the loop for a TLSGD against a symbol without a TLSGD
\* slot leaves the sixteen instruction bytes from site - 4 on, with the
\* encoding of S - tls_end + A + 4 modulo 2^32 in the last four, and goes on
\* two relocations further; with a slot the site holds the encoding of
\* tlsgd_addr + A - P modulo 2^32 and the loop goes on with the next
\* relocation.
C16_TlsgdRelaxedOrApplied ==
  (cp_last # 0 /\ ~cp_sym.file_null
     /\ cp_rels[cp_last] = "R_X86_64_TLSGD") =>
    LET site == ROffset(cp_last)
        S == LE(IF cp_piece THEN cp_env.piece_addr ELSE cp_env.S, 4)
        A == LE(IF cp_piece THEN cp_env.piece_addend ELSE cp_env.A, 4)
        P == PlusLE(LE(cp_env.sh_addr, 4), LE(U64(site), 4))
    IN IF ~cp_sym.has_tlsgd
         THEN /\ cp_buf =
                   Store(Store(cp_prev, site - 4,
                               <<100, 72, 139, 4, 37, 0, 0, 0, 0,
                                 72, 141, 128, 0, 0, 0, 0>>),
                         site + 8,
                         PlusLE(PlusLE(MinusLE(S, LE(cp_env.tls_end, 4)), A),
                                LE(U64(4), 4)))
              /\ cp_i = cp_last + 2
         ELSE /\ cp_buf =
                   Store(cp_prev, site,
                         MinusLE(PlusLE(LE(cp_env.tlsgd_addr, 4), A), P))
              /\ cp_i = cp_last + 1

\* A TLSGD without a slot was relaxed and copy_buf has returned without
\* applying the PLT32 after it.
C16_Witness ==
  /\ cp_pc = "done"
  /\ cp_rels = <<"R_X86_64_TLSGD", "R_X86_64_PLT32">>
  /\ ~cp_sym.file_null /\ ~cp_sym.has_tlsgd
  /\ cp_last = 1
  /\ cp_buf[0] = 100 /\ cp_buf[11] = 128

(***************************************************************************)
(* clear_padding (src/main.cc:565-578)                                     *)
(*                                                                         *)
(* The chunks have the offsets set_osec_offsets gave them and copy_buf has *)
(* written their contents; the bytes between them are what the output      *)
(* file held before.  out::chunks is never empty: it holds at least the    *)
(* ELF header.                                                             *)
(***************************************************************************)

\* The number of chunks of out::chunks.
MaxPadChunks == 3

\* The chunks: small ones, none of which starts a new PT_LOAD, so that the
\* file stays below one page.
PadChunkShapes ==
  {[kind |-> k, align |-> as[1], size |-> as[2], ptload |-> FALSE] :
     k \in {"alloc", "bss", "tbss", "nonalloc"},
     as \in {<<1, 3>>, <<8, 5>>}}

\* set_osec_offsets (lines 601-632) on a list of chunks: the sh_offset of
\* each, and the value returned.
RECURSIVE OsecLayout(_, _, _)
OsecLayout(chunks, fileoff, vaddr) ==
  IF chunks = <<>> THEN [offsets |-> <<>>, filesize |-> fileoff]
  ELSE LET chunk == Head(chunks)
           v1 == IF chunk.ptload THEN AlignTo(vaddr, PAGE_SIZE) ELSE vaddr
           f1 == OsecRectify(fileoff, v1)
           f2 == AlignTo(f1, chunk.align)
           v2 == AlignTo(v1, chunk.align)
           rest == OsecLayout(Tail(chunks), OsecAdvance(chunk, f2),
                              IF ~IsTbss(chunk) THEN v2 + chunk.size ELSE v2)
       IN [offsets |-> <<f2>> \o rest.offsets, filesize |-> rest.filesize]

\* Line 569 alone: the zeroing starts at the offset of the chunk.
ZeroStart_AtOffset(chunk, sh_offset) == sh_offset

\* Lines 569-571: pos, the end of the contents of the chunk.
ZeroStart(chunk, sh_offset) ==
  IF ~IsBss(chunk) THEN sh_offset + chunk.size ELSE sh_offset

\* Line 572: memset(out::buf + pos, 0, next_start - pos).
Zero(buf, c, next_start) ==
  LET pos == ZeroStart(pd_chunks[c], pd_offset[c])
  IN [k \in DOMAIN buf |-> IF pos <= k /\ k < next_start THEN 0 ELSE buf[k]]

\* The byte copy_buf left at offset k: that of the chunk whose contents
\* hold k, else what the file held before (255).
ByteAfterCopy(chunks, offsets, k) ==
  LET holders == {c \in 1..Len(chunks) :
                    /\ ~IsBss(chunks[c])
                    /\ offsets[c] <= k /\ k < offsets[c] + chunks[c].size}
  IN IF holders = {} THEN 255 ELSE CHOOSE c \in holders : TRUE

\* Lines 574-575: one turn of the loop.
PadZeroBetween ==
  /\ pd_pc = "loop"
  /\ pd_i < Len(pd_chunks)
  /\ pd_buf' = Zero(pd_buf, pd_i, pd_offset[pd_i + 1])
  /\ pd_i' = pd_i + 1
  /\ UNCHANGED <<pd_chunks, pd_offset, pd_filesize, pd_pc>>
  /\ UNCHANGED padOthers

\* Line 576: zero(out::chunks.back(), filesize).
PadZeroLast ==
  /\ pd_pc = "loop"
  /\ pd_i = Len(pd_chunks)
  /\ pd_buf' = Zero(pd_buf, Len(pd_chunks), pd_filesize)
  /\ pd_pc' = "done"
  /\ UNCHANGED <<pd_chunks, pd_offset, pd_filesize, pd_i>>
  /\ UNCHANGED padOthers

\* main, line 1121: clear_padding(filesize) is called after the copy.
PadInit ==
  /\ pd_chunks \in SeqsUpTo(PadChunkShapes, MaxPadChunks)
  /\ pd_chunks # <<>>
  /\ \E base \in ImageBases :
       LET layout == OsecLayout(pd_chunks, 0, base)
       IN /\ pd_offset = layout.offsets
          /\ pd_filesize = layout.filesize
  /\ pd_buf = [k \in 0..(pd_filesize - 1) |->
                 ByteAfterCopy(pd_chunks, pd_offset, k)]
  /\ pd_i = 1
  /\ pd_pc = "loop"
  /\ IdleBut("pad")

PadNext == PadZeroBetween \/ PadZeroLast

SpecPad == PadInit /\ [][PadNext]_vars

\* Offset k lies in the contents of a chunk.
InContents(k) ==
  \E c \in 1..Len(pd_chunks) :
    /\ ~IsBss(pd_chunks[c])
    /\ pd_offset[c] <= k /\ k < pd_offset[c] + pd_chunks[c].size

\* C17: after clear_padding, every byte of [0, filesize) outside the
\* contents of every chunk is zero, and every byte of the contents of a
\* chunk is as copy_buf left it.
C17_PaddingZeroContentsKept ==
  /\ pd_pc = "done" =>
       \A k \in 0..(pd_filesize - 1) : ~InContents(k) => pd_buf[k] = 0
  /\ \A k \in DOMAIN pd_buf :
       InContents(k) => pd_buf[k] = ByteAfterCopy(pd_chunks, pd_offset, k)

\* The gap after a NOBITS chunk that lies between two chunks with contents
\* has been zeroed.
C17_Witness ==
  /\ pd_pc = "done"
  /\ Len(pd_chunks) = 3
  /\ ~IsBss(pd_chunks[1]) /\ pd_chunks[2].kind = "bss"
  /\ ~IsBss(pd_chunks[3])
  /\ pd_offset[3] > pd_offset[2]
  /\ pd_offset[2] > pd_offset[1] + pd_chunks[1].size
  /\ pd_buf[pd_offset[2]] = 0
  /\ pd_buf[pd_offset[3]] = 3

(***************************************************************************)
(* get_section_rank (src/main.cc:580-599) and the sort of out::chunks by   *)
(* it (src/main.cc:975-979)                                                *)
(***************************************************************************)

\* The number of chunks of out::chunks.
MaxRankChunks == 2

\* What get_section_rank reads of a section header: sh_type and four bits
\* of sh_flags.
RankShdrs ==
  [sh_type : {"SHT_NOTE", "SHT_PROGBITS", "SHT_NOBITS"},
   alloc : BOOLEAN, write : BOOLEAN, execinstr : BOOLEAN, tls : BOOLEAN]

\* A bool shifted left by n: the bits of the rank are distinct, so that the
\* bitwise or of line 597 is their sum.
Shl(b, n) == IF b THEN 2 ^ n ELSE 0

\* Lines 590-599.
get_section_rank(shdr) ==
  LET note == shdr.sh_type = "SHT_NOTE"
      alloc == shdr.alloc
      writable == shdr.write
      exec == shdr.execinstr
      tls == shdr.tls
      nobits == shdr.sh_type = "SHT_NOBITS"
  IN Shl(~note, 6) + Shl(~alloc, 5) + Shl(writable, 4)
       + Shl(exec, 3) + Shl(~tls, 2) + Shl(nobits, 0)

\* The results a sort of chunks by rank can give: the chunks in an order
\* in which no chunk is followed by one of smaller rank.
SortedByRank(chunks) ==
  {[i \in 1..Len(chunks) |-> chunks[q[i]]] :
     q \in {r \in [1..Len(chunks) -> 1..Len(chunks)] :
              /\ \A i, j \in 1..Len(chunks) : i # j => r[i] # r[j]
              /\ \A i, j \in 1..Len(chunks) :
                   i < j => get_section_rank(chunks[r[i]])
                              <= get_section_rank(chunks[r[j]])}}

\* Lines 977-979: sort(out::chunks, ...).
RankSort ==
  /\ rk_pc = "collected"
  /\ rk_chunks' \in SortedByRank(rk_chunks)
  /\ rk_pc' = "sorted"
  /\ UNCHANGED rankOthers

\* Lines 964-975: out::chunks holds the output sections of non-zero size.
RankInit ==
  /\ rk_chunks \in SeqsUpTo(RankShdrs, MaxRankChunks)
  /\ rk_pc = "collected"
  /\ IdleBut("rank")

RankNext == RankSort

SpecRank == RankInit /\ [][RankNext]_vars

\* The class of a header in the list of the comment at lines 580-589, by
\* its number in the list.
SectionClass(shdr) ==
  IF shdr.sh_type = "SHT_NOTE" THEN 1
  ELSE IF ~shdr.alloc THEN 8
  ELSE IF ~shdr.write THEN (IF shdr.execinstr THEN 3 ELSE 2)
  ELSE IF shdr.tls THEN (IF shdr.sh_type = "SHT_NOBITS" THEN 5 ELSE 4)
  ELSE IF shdr.sh_type = "SHT_NOBITS" THEN 7 ELSE 6

\* C18: once out::chunks is sorted by rank, of two chunks of different
\* classes the one of the earlier class has the strictly smaller rank, and
\* the chunks stand in the order of their classes.
C18_RankOrdersClasses ==
  rk_pc = "sorted" =>
    /\ \A i, j \in 1..Len(rk_chunks) :
         SectionClass(rk_chunks[i]) < SectionClass(rk_chunks[j])
           => get_section_rank(rk_chunks[i]) < get_section_rank(rk_chunks[j])
    /\ \A i, j \in 1..Len(rk_chunks) :
         i < j => SectionClass(rk_chunks[i]) <= SectionClass(rk_chunks[j])

(***************************************************************************)
(* scan_rels, lines 411-414 of src/main.cc: scan_relocations runs for the  *)
(* files of out::objs in parallel tasks                                    *)
(*                                                                         *)
(* The relocations of the sections of a file are one list.  A turn of the  *)
(* loop that sets a need flag does so inside the scope of a                *)
(* std::lock_guard on the mutex of the symbol: the task waits until the    *)
(* mutex is free, and the end of the scope releases it.                    *)
(***************************************************************************)

\* The number of relocations of a file.
MaxLockRels == 2

LockTasks == {1, 2}

\* The relocations of the files: GOT references to both symbols, an
\* address of the first and a relocation that sets nothing.
LockRelas ==
  {[r_type |-> "R_X86_64_GOTPCREL", r_sym |-> 1],
   [r_type |-> "R_X86_64_GOTPCREL", r_sym |-> 2],
   [r_type |-> "R_X86_64_64", r_sym |-> 1],
   [r_type |-> "R_X86_64_NONE", r_sym |-> 1]}

\* The first symbol is imported or not; the second is an imported function.
LockSymShapes ==
  [file_null : {FALSE}, is_placeholder : {FALSE}, is_imported : BOOLEAN,
   type : {"STT_FUNC"}]

\* The lock_guard is never destroyed: the mutex stays locked.
Unlock_Kept(mu, s) == mu

\* The destructor of std::lock_guard at the end of the scope (lines 164,
\* 172, 177, 185, 194, 207).
Unlock(mu, s) == [mu EXCEPT ![s] = 0]

\* The turn of the loop the task t is at.
LockTurnOf(t) ==
  ScanRelocation(lk_rels[t][lk_i[t]], lk_sym[lk_rels[t][lk_i[t]].r_sym])

\* A turn of the loop that sets no flag takes no mutex.
LockFreeTurn(t) ==
  /\ lk_pc[t] = "turn"
  /\ lk_i[t] <= Len(lk_rels[t])
  /\ LockTurnOf(t).needs = {}
  /\ lk_i' = [lk_i EXCEPT ![t] = IF LockTurnOf(t).skip THEN @ + 2 ELSE @ + 1]
  /\ UNCHANGED <<lk_rels, lk_sym, lk_pc, lk_mu, lk_needs>>
  /\ UNCHANGED lockOthers

\* std::lock_guard lock(sym.mu): the constructor returns once the mutex is
\* free, and the task holds it.
LockAcquire(t) ==
  /\ lk_pc[t] = "turn"
  /\ lk_i[t] <= Len(lk_rels[t])
  /\ LockTurnOf(t).needs # {}
  /\ lk_mu[lk_rels[t][lk_i[t]].r_sym] = 0
  /\ lk_mu' = [lk_mu EXCEPT ![lk_rels[t][lk_i[t]].r_sym] = t]
  /\ lk_pc' = [lk_pc EXCEPT ![t] = "locked"]
  /\ UNCHANGED <<lk_rels, lk_sym, lk_i, lk_needs>>
  /\ UNCHANGED lockOthers

\* The flag is set and the scope of the lock_guard ends.
LockRelease(t) ==
  /\ lk_pc[t] = "locked"
  /\ LET sym == lk_rels[t][lk_i[t]].r_sym
     IN /\ lk_needs' = [lk_needs EXCEPT ![sym] = @ \cup LockTurnOf(t).needs]
        /\ lk_mu' = Unlock(lk_mu, sym)
  /\ lk_i' = [lk_i EXCEPT ![t] = IF LockTurnOf(t).skip THEN @ + 2 ELSE @ + 1]
  /\ lk_pc' = [lk_pc EXCEPT ![t] = "turn"]
  /\ UNCHANGED <<lk_rels, lk_sym>>
  /\ UNCHANGED lockOthers

\* Line 139: i has reached rels.size(); the task ends.
LockReturn(t) ==
  /\ lk_pc[t] = "turn"
  /\ lk_i[t] > Len(lk_rels[t])
  /\ lk_pc' = [lk_pc EXCEPT ![t] = "done"]
  /\ UNCHANGED <<lk_rels, lk_sym, lk_i, lk_mu, lk_needs>>
  /\ UNCHANGED lockOthers

\* tbb::parallel_for_each of line 411 has created the tasks.
LockInit ==
  /\ lk_rels \in [LockTasks -> SeqsUpTo(LockRelas, MaxLockRels)]
  /\ lk_sym \in [ScanSyms -> LockSymShapes]
  /\ lk_sym[2].is_imported
  /\ lk_i = [t \in LockTasks |-> 1]
  /\ lk_pc = [t \in LockTasks |-> "turn"]
  /\ lk_mu = [s \in ScanSyms |-> 0]
  /\ lk_needs = [s \in ScanSyms |-> {}]
  /\ IdleBut("lock")

LockNext ==
  \E t \in LockTasks :
    LockFreeTurn(t) \/ LockAcquire(t) \/ LockRelease(t) \/ LockReturn(t)

SpecLock == LockInit /\ [][LockNext]_vars

\* The mutexes the task t holds.
MutexesHeld(t) == {s \in ScanSyms : lk_mu[s] = t}

\* C21: no task holds two symbol mutexes, a task that is not in the scope
\* of a lock_guard holds none, and as long as a task has not ended some
\* task can take a step.
C21_OneMutexNoDeadlock ==
  /\ \A t \in LockTasks :
       /\ Cardinality(MutexesHeld(t)) <= 1
       /\ lk_pc[t] # "locked" => MutexesHeld(t) = {}
  /\ (\E t \in LockTasks : lk_pc[t] # "done") => ENABLED LockNext

\* The two files refer to the two symbols in opposite orders; the first has
\* released the mutex of the first symbol and holds that of the second,
\* for which the second file, at its first relocation, waits.
C21_Witness ==
  /\ Len(lk_rels[1]) = 2 /\ Len(lk_rels[2]) = 2
  /\ lk_rels[1][1].r_sym = 1 /\ lk_rels[1][2].r_sym = 2
  /\ lk_rels[2][1].r_sym = 2 /\ lk_rels[2][2].r_sym = 1
  /\ lk_rels[2][2].r_type = "R_X86_64_GOTPCREL"
  /\ lk_pc[1] = "locked" /\ lk_i[1] = 2 /\ lk_mu[2] = 1
  /\ lk_needs[1] # {}
  /\ lk_pc[2] = "turn" /\ lk_i[2] = 1
  /\ ~ENABLED LockAcquire(2)

(***************************************************************************)
(* parser_tg (src/main.cc:12): the tasks new_object_file and               *)
(* new_shared_file enqueue (lines 44-57), the wait that ends               *)
(* read_input_files (line 764) and the passes of main (lines 808-832)      *)
(***************************************************************************)

\* The number of files file_args names.
MaxParseFiles == 2

\* The parse tasks one call of read_file enqueues: none (a linker script,
\* or files taken from the cache), one (an object, a shared object), or one
\* for each of the two members of an archive.
ParseTasksOfFile == {0, 1, 2}

\* tbb::task_group::wait returns although a task runs.
WaitReturns_Early(enqueued, completed) == TRUE

\* tbb::task_group::wait (line 764) returns when every task has returned.
WaitReturns(enqueued, completed) == completed = enqueued

\* Lines 759-761: read_file; the tasks it enqueues start at once.
PtReadFile ==
  /\ pt_pc \in {"preload", "main"}
  /\ pt_left > 0
  /\ \E k \in ParseTasksOfFile : pt_enqueued' = pt_enqueued + k
  /\ pt_left' = pt_left - 1
  /\ UNCHANGED <<pt_preload, pt_completed, pt_joins, pt_pc>>
  /\ UNCHANGED parseOthers

\* Lines 49, 55: file->parse() returns in a task of parser_tg.
PtParsed ==
  /\ pt_completed < pt_enqueued
  /\ pt_completed' = pt_completed + 1
  /\ UNCHANGED <<pt_preload, pt_left, pt_enqueued, pt_joins, pt_pc>>
  /\ UNCHANGED parseOthers

\* Line 764 in the call of line 815, then lines 816-830: the preload pass
\* ends, the client arrives and the files are read again.
PtPreloadWait ==
  /\ pt_pc = "preload"
  /\ pt_left = 0
  /\ WaitReturns(pt_enqueued, pt_completed)
  /\ pt_joins' = pt_joins + 1
  /\ \E n \in 0..MaxParseFiles : pt_left' = n
  /\ pt_pc' = "main"
  /\ UNCHANGED <<pt_preload, pt_enqueued, pt_completed>>
  /\ UNCHANGED parseOthers

\* Line 764 in the call of line 831: the main pass ends.
PtMainWait ==
  /\ pt_pc = "main"
  /\ pt_left = 0
  /\ WaitReturns(pt_enqueued, pt_completed)
  /\ pt_joins' = pt_joins + 1
  /\ pt_pc' = "read"
  /\ UNCHANGED <<pt_preload, pt_left, pt_enqueued, pt_completed>>
  /\ UNCHANGED parseOthers

\* Lines 834-918: resolve_symbols is called.
PtResolve ==
  /\ pt_pc = "read"
  /\ pt_pc' = "resolve"
  /\ UNCHANGED <<pt_preload, pt_left, pt_enqueued, pt_completed, pt_joins>>
  /\ UNCHANGED parseOthers

\* Lines 811-816: with config.preload the files are read twice.
ParseInit ==
  /\ pt_preload \in BOOLEAN
  /\ pt_left \in 0..MaxParseFiles
  /\ pt_enqueued = 0
  /\ pt_completed = 0
  /\ pt_joins = 0
  /\ pt_pc = IF pt_preload THEN "preload" ELSE "main"
  /\ IdleBut("parse")

ParseNext ==
  \/ PtReadFile
  \/ PtParsed
  \/ PtPreloadWait
  \/ PtMainWait
  \/ PtResolve

SpecParse == ParseInit /\ [][ParseNext]_vars

\* C22 as stated: when resolve_symbols starts, the task group has been
\* joined exactly once and every parse task has returned.
C22_JoinedOnceAllParsed ==
  pt_pc = "resolve" => pt_joins = 1 /\ pt_completed = pt_enqueued

\* C22, amended: when resolve_symbols starts, every parse task has
\* returned, and the task group has been joined once for each call of
\* read_input_files: once without preloading, twice with it.
C22_JoinedPerPassAllParsed ==
  pt_pc = "resolve" =>
    /\ pt_completed = pt_enqueued
    /\ pt_joins = IF pt_preload THEN 2 ELSE 1

\* resolve_symbols starts after a preload pass and a main pass that both
\* enqueued parse tasks.
C22_Witness ==
  /\ pt_pc = "resolve"
  /\ pt_preload
  /\ pt_joins = 2
  /\ pt_enqueued > 2

(***************************************************************************)
(* main, lines 904-914 of src/main.cc: the priorities of the files         *)
(*                                                                         *)
(* out::objs and out::dsos are as read_input_files left them, in the order *)
(* of the command line; every entry is a file object of its own.           *)
(***************************************************************************)

\* The number of files of out::objs, and of out::dsos.
MaxPrioFiles == 3

\* The first loop gives every object a priority, in_lib or not.
PrioAssigns_InOrder(loop, i) == loop \in {"objs", "dsos"}

\* Lines 907 and 910, and the loop of line 912 that has no condition:
\* whether the loop gives the file at position i a priority.
PrioAssigns(loop, i) ==
  CASE loop = "objs" -> ~pr_in_lib[i]
    [] loop = "libs" -> pr_in_lib[i]
    [] loop = "dsos" -> TRUE

\* The length of the list a loop runs over.
PrioLoopLen(loop) == IF loop = "dsos" THEN pr_ndsos ELSE Len(pr_in_lib)

\* Lines 906-913: one turn of the running loop.
PrioTurn ==
  /\ pr_pc \in {"objs", "libs", "dsos"}
  /\ pr_i <= PrioLoopLen(pr_pc)
  /\ IF PrioAssigns(pr_pc, pr_i)
       THEN /\ pr_priority' = pr_priority + 1
            /\ IF pr_pc = "dsos"
                 THEN /\ pr_dso' = [pr_dso EXCEPT ![pr_i] = pr_priority]
                      /\ UNCHANGED pr_obj
                 ELSE /\ pr_obj' = [pr_obj EXCEPT ![pr_i] = pr_priority]
                      /\ UNCHANGED pr_dso
       ELSE UNCHANGED <<pr_priority, pr_obj, pr_dso>>
  /\ pr_i' = pr_i + 1
  /\ UNCHANGED <<pr_in_lib, pr_ndsos, pr_pc>>
  /\ UNCHANGED prioOthers

\* A loop has reached the end of its list: the next loop starts, and after
\* the third resolve_symbols is called (line 918).
PrioLoopEnd ==
  /\ pr_pc \in {"objs", "libs", "dsos"}
  /\ pr_i > PrioLoopLen(pr_pc)
  /\ pr_pc' = CASE pr_pc = "objs" -> "libs"
                [] pr_pc = "libs" -> "dsos"
                [] pr_pc = "dsos" -> "resolve"
  /\ pr_i' = 1
  /\ UNCHANGED <<pr_in_lib, pr_ndsos, pr_obj, pr_dso, pr_priority>>
  /\ UNCHANGED prioOthers

\* Line 905: i64 priority = 2.
PrioInit ==
  /\ pr_in_lib \in SeqsUpTo(BOOLEAN, MaxPrioFiles)
  /\ pr_ndsos \in 0..MaxPrioFiles
  /\ pr_obj = [i \in 1..Len(pr_in_lib) |-> 0]
  /\ pr_dso = [j \in 1..pr_ndsos |-> 0]
  /\ pr_priority = 2
  /\ pr_i = 1
  /\ pr_pc = "objs"
  /\ IdleBut("prio")

PrioNext == PrioTurn \/ PrioLoopEnd

SpecPrio == PrioInit /\ [][PrioNext]_vars

\* C23: when resolve_symbols is called the priorities are at least 2 and
\* pairwise distinct; an object that is not in_lib has a lower priority
\* than every object that is, an object a lower priority than every shared
\* object, and among the objects that are not in_lib, among those that
\* are, and among the shared objects the priorities increase in the order
\* of the lists.
C23_PrioritiesDistinctAndOrdered ==
  pr_pc = "resolve" =>
    LET O == 1..Len(pr_in_lib)
        D == 1..pr_ndsos
    IN /\ \A i \in O : pr_obj[i] >= 2
       /\ \A j \in D : pr_dso[j] >= 2
       /\ \A i, k \in O : i # k => pr_obj[i] # pr_obj[k]
       /\ \A j, k \in D : j # k => pr_dso[j] # pr_dso[k]
       /\ \A i \in O : \A j \in D : pr_obj[i] < pr_dso[j]
       /\ \A i, k \in O :
            ~pr_in_lib[i] /\ pr_in_lib[k] => pr_obj[i] < pr_obj[k]
       /\ \A i, k \in O :
            i < k /\ pr_in_lib[i] = pr_in_lib[k] => pr_obj[i] < pr_obj[k]
       /\ \A j, k \in D : j < k => pr_dso[j] < pr_dso[k]

\* An archive member stands before two objects named on the command line
\* and has the priority after theirs; two shared objects follow.
C23_Witness ==
  /\ pr_pc = "resolve"
  /\ pr_in_lib = <<TRUE, FALSE, FALSE>>
  /\ pr_obj = <<4, 2, 3>>
  /\ pr_dso = <<5, 6>>

(***************************************************************************)
(* read_file (src/main.cc:84-145) on one mapped file of any contents       *)
(*                                                                         *)
(* The files are counted, not named: SpecRead names them.  An archive has  *)
(* two members.  The caches are empty when read_file is called.            *)
(***************************************************************************)

\* Lines 88-110: read_file while preloading.  The switch has no case for
\* UNKNOWN: control reaches Fatal() of line 109.
FtReadFilePreloading ==
  /\ ft_pc = "call"
  /\ ft_preloading
  /\ ft_type' = get_file_type(ft_mb)
  /\ ft_stored' = CASE ft_type' \in {"OBJ", "DSO"} -> 1
                    [] ft_type' \in {"AR", "THIN_AR"} -> 2
                    [] OTHER -> 0
  /\ ft_pc' = IF ft_type' = "UNKNOWN" THEN "fatal" ELSE "returned"
  /\ UNCHANGED <<ft_mb, ft_preloading, ft_objs, ft_dsos>>
  /\ UNCHANGED typeOthers

\* Lines 112-144: read_file in the main pass; Fatal() of line 144.
FtReadFileMain ==
  /\ ft_pc = "call"
  /\ ~ft_preloading
  /\ ft_type' = get_file_type(ft_mb)
  /\ ft_objs' = CASE ft_type' = "OBJ" -> 1
                  [] ft_type' \in {"AR", "THIN_AR"} -> 2
                  [] OTHER -> 0
  /\ ft_dsos' = IF ft_type' = "DSO" THEN 1 ELSE 0
  /\ ft_pc' = IF ft_type' = "UNKNOWN" THEN "fatal" ELSE "returned"
  /\ UNCHANGED <<ft_mb, ft_preloading, ft_stored>>
  /\ UNCHANGED typeOthers

\* read_file is called (lines 757, 759) in either pass.
TypeInit ==
  /\ ft_mb \in MappedShapes
  /\ ft_preloading \in BOOLEAN
  /\ ft_type = ""
  /\ ft_objs = 0
  /\ ft_dsos = 0
  /\ ft_stored = 0
  /\ ft_pc = "call"
  /\ IdleBut("type")

TypeNext == FtReadFilePreloading \/ FtReadFileMain

SpecType == TypeInit /\ [][TypeNext]_vars

\* The type the claim gives a file, by its precedence.
ClaimedFileType(mb) ==
  LET elf == mb.magic = "elf" /\ mb.size >= 20
      printable == mb.size >= 4 /\ mb.magic # "elf" /\ mb.magic # "other"
  IN CASE elf /\ mb.e_type = "ET_REL" -> "OBJ"
       [] elf /\ mb.e_type = "ET_DYN" -> "DSO"
       [] elf /\ mb.e_type \notin {"ET_REL", "ET_DYN"} -> "UNKNOWN"
       [] ~elf /\ mb.magic = "arch" /\ mb.size >= 8 -> "AR"
       [] ~elf /\ mb.magic = "thin" /\ mb.size >= 8 -> "THIN_AR"
       [] ~elf /\ ~(mb.magic \in {"arch", "thin"} /\ mb.size >= 8)
            /\ printable -> "TEXT"
       [] OTHER -> "UNKNOWN"

\* C24: once read_file has classified the file, the type is the one the
\* precedence of the claim gives; read_file has ended in Fatal() exactly
\* when the type is UNKNOWN, in either pass, and then nothing has been
\* added to out::objs, out::dsos or the caches.
C24_ClassifiedByPrecedenceUnknownFatal ==
  ft_pc # "call" =>
    /\ ft_type = ClaimedFileType(ft_mb)
    /\ ft_pc = "fatal" <=> ft_type = "UNKNOWN"
    /\ ft_pc = "fatal" => ft_objs = 0 /\ ft_dsos = 0 /\ ft_stored = 0

\* While preloading, a file that begins like an ELF file but is shorter
\* than 20 bytes has ended read_file in Fatal().
C24_Witness ==
  /\ ft_pc = "fatal"
  /\ ft_preloading
  /\ ft_mb.magic = "elf" /\ ft_mb.size = 19 /\ ft_mb.e_type = "ET_REL"

(***************************************************************************)
(* handle_mergeable_strings, second pass (src/main.cc:227-240)             *)
(*                                                                         *)
(* The second parallel_for_each starts when the first has returned.  The   *)
(* first pass reads neither the alignment nor the data of a fragment, so   *)
(* they are drawn when the second pass starts.                             *)
(***************************************************************************)

\* The mergeable sections of out::objs.
MSecs ==
  {<<f, s>> \in MFiles \X (1..2) : s <= Len(ms_sections[f])}

\* Line 232 without the test of frag->offset.
Merge2Assigns_NoOffsetTest(fr, isec) == frag_isec[fr] = isec

\* Line 232 without the test of frag->isec: any section that holds the
\* fragment assigns its offset.
Merge2Assigns_NoOwnerTest(fr, isec) == frag_offset[fr] = -1

\* Line 232: frag->isec == isec && frag->offset == -1
Merge2Assigns(fr, isec) == frag_isec[fr] = isec /\ frag_offset[fr] = -1

\* Line 228: the first pass has returned; the tasks of the second start.
Merge2Start ==
  /\ m2_pc = "idle"
  /\ MergePass1Done
  /\ frag_alignment' \in [Frags -> {1, 4}]
  /\ frag_size' = [fr \in Frags |-> 2 * fr + 1]
  /\ frag_offset' = [fr \in Frags |-> -1]
  /\ frag_writes' = [fr \in Frags |-> <<>>]
  /\ m2_size' = [sec \in MSecs |-> 0]
  /\ m2_offset' = [f \in MFiles |-> 0]
  /\ m2_pos' = [f \in MFiles |-> MsSkip(f, 1, 1)]
  /\ m2_pc' = "pass2"
  /\ UNCHANGED mergeVars
  /\ UNCHANGED merge2Others

\* Lines 231-238: one turn of the loop over the fragments of a section;
\* after the last fragment isec->size is set, and offset starts at 0 for
\* the next section.
Merge2Turn(f) ==
  /\ m2_pc = "pass2"
  /\ m2_pos[f].st = "load"
  /\ LET isec == <<f, m2_pos[f].s>>
         frags == ms_sections[f][m2_pos[f].s]
         fr == frags[m2_pos[f].k]
         offset == AlignTo(m2_offset[f], frag_alignment[fr])
         after == IF Merge2Assigns(fr, isec)
                    THEN offset + frag_size[fr] ELSE m2_offset[f]
         last == m2_pos[f].k = Len(frags)
     IN /\ IF Merge2Assigns(fr, isec)
             THEN /\ frag_offset' = [frag_offset EXCEPT ![fr] = offset]
                  /\ frag_writes' =
                       [frag_writes EXCEPT ![fr] = Append(@, isec)]
             ELSE UNCHANGED <<frag_offset, frag_writes>>
        /\ m2_size' = IF last THEN [m2_size EXCEPT ![isec] = after]
                      ELSE m2_size
        /\ m2_offset' = [m2_offset EXCEPT ![f] = IF last THEN 0 ELSE after]
        /\ m2_pos' = [m2_pos EXCEPT ![f] =
                        MsSkip(f, m2_pos[f].s, m2_pos[f].k + 1)]
  /\ UNCHANGED <<frag_alignment, frag_size, m2_pc>>
  /\ UNCHANGED mergeVars
  /\ UNCHANGED merge2Others

\* Line 240: the second parallel_for_each returns.
Merge2Return ==
  /\ m2_pc = "pass2"
  /\ \A f \in MFiles : m2_pos[f].st = "done"
  /\ m2_pc' = "pass3"
  /\ UNCHANGED <<frag_alignment, frag_size, frag_offset, frag_writes,
                 m2_size, m2_offset, m2_pos>>
  /\ UNCHANGED mergeVars
  /\ UNCHANGED merge2Others

Merge2Next ==
  \/ Merge2Start
  \/ \E f \in MFiles : Merge2Turn(f)
  \/ Merge2Return

SpecMerge2 == MergeFairInit /\ [][MergeNext \/ Merge2Next]_vars

\* The fragments a section owns.
OwnedBy(sec) == {fr \in Frags : frag_isec[fr] = sec}

\* C26: after the second pass every alive fragment that occurs in a
\* section has an offset, assigned once and by its owning section, and no
\* other fragment has one; the fragments a section owns lie at multiples
\* of their alignments in pairwise disjoint ranges, and the size of the
\* section is the end of the last of them.
C26_OneOffsetPerFragmentInOwner ==
  m2_pc = "pass3" =>
    /\ \A fr \in Frags :
         IF frag_alive[fr] /\ SecsWith(fr) # {}
           THEN /\ frag_writes[fr] = <<frag_isec[fr]>>
                /\ frag_offset[fr] >= 0
                /\ frag_offset[fr] % frag_alignment[fr] = 0
           ELSE frag_writes[fr] = <<>> /\ frag_offset[fr] = -1
    /\ \A sec \in MSecs :
         /\ \A a, b \in OwnedBy(sec) :
              a # b =>
                \/ frag_offset[a] + frag_size[a] <= frag_offset[b]
                \/ frag_offset[b] + frag_size[b] <= frag_offset[a]
         /\ \A a \in OwnedBy(sec) :
              frag_offset[a] + frag_size[a] <= m2_size[sec]
         /\ \/ OwnedBy(sec) = {} /\ m2_size[sec] = 0
            \/ \E a \in OwnedBy(sec) :
                 m2_size[sec] = frag_offset[a] + frag_size[a]

\* A section holds the first fragment twice and the second after it, owns
\* both, and pads before the second; the other file holds the first too.
C26_Witness ==
  /\ m2_pc = "pass3"
  /\ \E f, g \in MFiles :
       /\ f # g
       /\ ms_sections[f] = <<<<1, 2>>>>
       /\ ms_sections[g] = <<<<1, 1>>>>
       /\ frag_isec[1] = <<f, 1>> /\ frag_isec[2] = <<f, 1>>
       /\ frag_offset[1] = 0 /\ frag_offset[2] = 4
       /\ m2_size[<<f, 1>>] = 9 /\ m2_size[<<g, 1>>] = 0

(***************************************************************************)
(* main, lines 955-979 of src/main.cc: the order of out::chunks            *)
(*                                                                         *)
(* The output sections are created by parallel tasks, so the order of      *)
(* OutputSection::instances before line 962 is any order.  An output       *)
(* section is the only one of its name, type and flags; the model names    *)
(* it by the place of that triple in the order of section_compare.  Chunk  *)
(* 0 is a synthetic chunk pushed at lines 882-902, .got.  sort of mold.h   *)
(* is a sequential sort that keeps the order of elements that compare      *)
(* equal.                                                                  *)
(***************************************************************************)

\* The headers of the chunks: .got, .data and .data1 have the same rank.
ChunkShdr(c) ==
  [sh_type |-> "SHT_PROGBITS", alloc |-> TRUE, write |-> c # 3,
   execinstr |-> FALSE, tls |-> FALSE]

\* The sequences that hold each element of S once.
OrdersOf(S) ==
  {q \in [1..Cardinality(S) -> S] :
     \A i, j \in 1..Cardinality(S) : i # j => q[i] # q[j]}

\* sort(vec, less) of mold.h, with less(x, y) as key[x] < key[y]: x is put
\* after the elements that are not greater than it.
RECURSIVE StableSort(_, _)
StableSort(vec, key) ==
  IF vec = <<>> THEN <<>>
  ELSE LET done == StableSort(SubSeq(vec, 1, Len(vec) - 1), key)
           x == vec[Len(vec)]
           n == Cardinality({i \in 1..Len(done) :
                               \A j \in 1..i : ~(key[x] < key[done[j]])})
       IN SubSeq(done, 1, n) \o <<x>> \o SubSeq(done, n + 1, Len(done))

\* Lines 957-960: section_compare orders by name, type and flags, which is
\* the order of the keys.
section_compare == [c \in 0..3 |-> c]

\* Lines 977-979: the chunks are compared by their ranks.
RankOf == [c \in 0..3 |-> get_section_rank(ChunkShdr(c))]

\* Line 962: sort(OutputSection::instances, section_compare).
SortInstances(instances) == StableSort(instances, section_compare)

\* Lines 962-979: the instances are sorted and pushed, and out::chunks is
\* sorted by rank.
ChunkOrder ==
  /\ ch_pc = "created"
  /\ ch_instances' = SortInstances(ch_instances)
  /\ ch_chunks' = StableSort(ch_chunks \o ch_instances', RankOf)
  /\ ch_pc' = "ranked"
  /\ UNCHANGED chunkOthers

\* Lines 882-902: out::chunks holds the synthetic chunks; the output
\* sections exist, in the order the tasks created them.
ChunkInit ==
  /\ ch_instances \in UNION {OrdersOf(S) : S \in SUBSET {1, 2, 3}}
  /\ ch_chunks = <<0>>
  /\ ch_pc = "created"
  /\ IdleBut("chunk")

(***************************************************************************)
(* The layout phase: handle_mergeable_strings, bin_sections,               *)
(* set_isec_offsets and the order of out::chunks.  Each stage starts when  *)
(* the stage before it has returned, so each is followed from the states   *)
(* it can start in.                                                        *)
(***************************************************************************)

LayoutInit == MergeFairInit \/ BinInit \/ IsecInit \/ ChunkInit

LayoutNext ==
  \/ ms_pos # <<>> /\ MergeNext
  \/ ms_pos # <<>> /\ Merge2Next
  \/ BinNext
  \/ IsecNext
  \/ ChunkOrder

SpecLayout == LayoutInit /\ [][LayoutNext]_vars

\* The owner the files give a fragment, whatever the schedule: of the
\* sections that hold it, the first of the file of the lowest priority.
FixedOwner(fr) ==
  IF ~frag_alive[fr] \/ SecsWith(fr) = {} THEN NullSec
  ELSE CHOOSE sec \in SecsWith(fr) :
         \A o \in SecsWith(fr) :
           \/ SecPriority(sec) < SecPriority(o)
           \/ sec[1] = o[1] /\ sec[2] <= o[2]

\* The offsets and the size a section gives the fragments FixedOwner
\* assigns to it, laid out in the order of its list from fragment k on.
RECURSIVE FixedSecLayout(_, _, _, _)
FixedSecLayout(sec, k, off, offsets) ==
  LET frags == ms_sections[sec[1]][sec[2]]
  IN IF k > Len(frags) THEN [offsets |-> offsets, size |-> off]
     ELSE IF FixedOwner(frags[k]) = sec /\ offsets[frags[k]] = -1
       THEN LET at == AlignTo(off, frag_alignment[frags[k]])
            IN FixedSecLayout(sec, k + 1, at + frag_size[frags[k]],
                              [offsets EXCEPT ![frags[k]] = at])
     ELSE FixedSecLayout(sec, k + 1, off, offsets)

FixedLayout(sec) == FixedSecLayout(sec, 1, 0, [fr \in Frags |-> -1])

\* The offset of member m of an output section, from the members alone.
FixedMemberOffset(m) ==
  LET i == CHOOSE i \in 1..Len(IsecSlices) :
             \E k \in 1..Len(IsecSlices[i]) : IsecSlices[i][k] = m
      k == CHOOSE k \in 1..Len(IsecSlices[i]) : IsecSlices[i][k] = m
      sizes == [n \in 1..Len(IsecSlices) |-> SliceLayout(IsecSlices[n]).off]
      aligns == [n \in 1..Len(IsecSlices) |->
                   SliceLayout(IsecSlices[n]).align]
  IN SliceLayout(IsecSlices[i]).offsets[k]
       + IsecStarts(sizes, SeqMax(aligns))[i]

\* The largest number of a set of numbers.
SetMax(S) == CHOOSE x \in S : \A y \in S : y <= x

C28_MembersAlignedHeaderIsMax ==
  (is_pc = "done" /\ is_members # <<>>) =>
    /\ \A m \in 1..Len(is_members) :
         is_offset[m] % is_members[m].align = 0
    /\ osec_shdr.sh_addralign =
         SetMax({is_members[m].align : m \in 1..Len(is_members)})
    /\ osec_shdr.sh_size =
         SetMax({is_offset[m] + is_members[m].size :
                   m \in 1..Len(is_members)})

\* Three slices have been laid out; the second starts after a slice of odd
\* size with a member aligned to 4, and the last member is empty.
C28_Witness ==
  /\ is_pc = "done"
  /\ Len(IsecSlices) >= 3
  /\ is_size[1] % 4 # 0
  /\ is_members[IsecSlices[2][1]].align = 4
  /\ is_members[Len(is_members)].size = 0

(***************************************************************************)
(* bin_sections (src/main.cc:263-267) with every number of object files    *)
(***************************************************************************)

\* The concatenation of a sequence of sequences.
RECURSIVE ConcatAll(_)
ConcatAll(seqs) ==
  IF seqs = <<>> THEN <<>> ELSE Head(seqs) \o ConcatAll(Tail(seqs))

\* C29: bin_sections completes for every list of object files, the empty
\* list included: it does not stop in split, and once split has returned
\* the unit is at least 1 and the slices are non-empty, at most unit long,
\* and concatenate to out::objs.
C29_BinSectionsCompletes ==
  /\ bn_pc # "stuck"
  /\ bn_pc \in {"bin", "sizes", "append", "done"} =>
       /\ BinUnit >= 1
       /\ \A i \in 1..Len(BinFileSlices) :
            Len(BinFileSlices[i]) \in 1..BinUnit
       /\ ConcatAll(BinFileSlices) = [f \in 1..Len(bn_sections) |-> f]

(***************************************************************************)
(* The loops over rels of InputSection::scan_relocations and               *)
(* InputSection::copy_buf (src/input_sections.cc:138-208 and 20-125)       *)
(*                                                                         *)
(* Indices are those of the code, from 0: rels[i] is ix_rels[i + 1].  skip *)
(* is the condition under which the loop passes over the relocation after  *)
(* a TLSGD or TLSLD: the symbol is not imported (scan_relocations), its    *)
(* tlsgd_idx or tlsld_idx is -1 (copy_buf).                                *)
(***************************************************************************)

\* The longest relocation list.
MaxIndexRels == 3

IndexRelas ==
  [r_type : {"R_X86_64_TLSGD", "R_X86_64_TLSLD", "R_X86_64_PLT32",
             "R_X86_64_64"},
   skip : BOOLEAN]

IsTlsPair(rel) == rel.r_type \in {"R_X86_64_TLSGD", "R_X86_64_TLSLD"}

\* Lines 184 and 193: assert(rels[i + 1].r_type == R_X86_64_PLT32).  The
\* values the condition can have: past the end of rels the read is of
\* whatever follows the array.
PairAssertion(rels, i) ==
  IF i + 1 < Len(rels) THEN {rels[i + 2].r_type = "R_X86_64_PLT32"}
  ELSE BOOLEAN

\* Lines 138-208 of scan_relocations: one iteration of the loop.
IndexScanTurn ==
  /\ ix_pc = "run" /\ ix_fn = "scan"
  /\ ix_i < Len(ix_rels)
  /\ LET rel == ix_rels[ix_i + 1]
         asserts == IsTlsPair(rel) /\ ix_assert
     IN /\ ix_reads' = ix_reads \cup {ix_i}
                         \cup (IF asserts THEN {ix_i + 1} ELSE {})
        /\ \E ok \in (IF asserts THEN PairAssertion(ix_rels, ix_i)
                      ELSE {TRUE}) :
             IF ok
               THEN /\ ix_i' = IF IsTlsPair(rel) /\ rel.skip
                                 THEN ix_i + 2 ELSE ix_i + 1
                    /\ UNCHANGED ix_pc
               ELSE /\ ix_pc' = "aborted"
                    /\ UNCHANGED ix_i
  /\ UNCHANGED <<ix_rels, ix_fn, ix_assert>>
  /\ UNCHANGED indexOthers

\* Lines 20-123 of copy_buf: one iteration of the loop.
IndexCopyTurn ==
  /\ ix_pc = "run" /\ ix_fn = "copy"
  /\ ix_i < Len(ix_rels)
  /\ LET rel == ix_rels[ix_i + 1]
     IN /\ ix_reads' = ix_reads \cup {ix_i}
        /\ ix_i' = IF IsTlsPair(rel) /\ rel.skip
                     THEN ix_i + 2 ELSE ix_i + 1
  /\ UNCHANGED <<ix_rels, ix_fn, ix_assert, ix_pc>>
  /\ UNCHANGED indexOthers

\* Lines 138 and 20: i < rels.size() is false.
IndexReturn ==
  /\ ix_pc = "run"
  /\ ix_i >= Len(ix_rels)
  /\ ix_pc' = "done"
  /\ UNCHANGED <<ix_rels, ix_fn, ix_assert, ix_i, ix_reads>>
  /\ UNCHANGED indexOthers

IndexInit ==
  /\ ix_rels \in SeqsUpTo(IndexRelas, MaxIndexRels)
  /\ ix_fn \in {"scan", "copy"}
  /\ ix_assert \in BOOLEAN
  /\ ix_i = 0
  /\ ix_reads = {}
  /\ ix_pc = "run"
  /\ IdleBut("index")

IndexNext ==
  \/ IndexScanTurn
  \/ IndexCopyTurn
  \/ IndexReturn

SpecIndex == IndexInit /\ [][IndexNext]_vars

\* C30: scan_relocations and copy_buf read rels only at indices below
\* rels.size(), for every relocation list, one that ends with a TLSGD or
\* TLSLD included.
C30_NoReadPastEnd == \A k \in ix_reads : k < Len(ix_rels)

(***************************************************************************)
(* main, lines 1111-1129 of src/main.cc: the copy phase, the checkpoint    *)
(* and the commit of the output file                                       *)
(*                                                                         *)
(* A chunk is taken with the relocations of its input sections in one      *)
(* list.  The relocations are against symbols with a file and are not      *)
(* passed over as the second of a pair.  error() of mold.h records the     *)
(* error for the next checkpoint and returns.                              *)
(***************************************************************************)

\* The chunks of out::chunks and the longest relocation list of a chunk.
CommitChunks == {1, 2}
MaxCommitRels == 2

\* A type the switch of copy_buf names, and one it does not.
CommitRelTypes == {"R_X86_64_64", "R_X86_64_SIZE32"}

\* Lines 119-121 of src/input_sections.cc left out: no type is reported.
CommitReportsError_Never(r_type) == FALSE

\* Lines 38-121 of src/input_sections.cc: whether the switch of copy_buf
\* reports an error for a relocation of type r_type against a symbol with
\* a file.
CommitReportsError(r_type) ==
  CopyRelocation(r_type, 1, [k \in 0..(BufSize - 1) |-> 0],
                 CHOOSE sym \in CopySymShapes : ~sym.file_null,
                 CHOOSE env \in CopyEnvs : TRUE, FALSE).error

\* Lines 20-123 of src/input_sections.cc: the task of chunk c applies its
\* next relocation, or records an error in the default case (lines
\* 119-121), and goes on with the loop.
CommitCopyTurn(c) ==
  /\ cm_pc = "copy"
  /\ cm_i[c] < Len(cm_rels[c])
  /\ LET error == CommitReportsError(cm_rels[c][cm_i[c] + 1])
     IN /\ cm_errors' = (cm_errors \/ error)
        /\ cm_applied' = IF error THEN cm_applied
                         ELSE cm_applied \cup {<<c, cm_i[c] + 1>>}
  /\ cm_i' = [cm_i EXCEPT ![c] = cm_i[c] + 1]
  /\ UNCHANGED <<cm_rels, cm_buildid, cm_steps, cm_pc>>
  /\ UNCHANGED commitOthers

\* Lines 1114-1116: tbb::parallel_for_each returns when the task of every
\* chunk has returned.
CommitCopyReturn ==
  /\ cm_pc = "copy"
  /\ \A c \in CommitChunks : cm_i[c] = Len(cm_rels[c])
  /\ cm_pc' = "checkpoint"
  /\ UNCHANGED <<cm_rels, cm_i, cm_applied, cm_errors, cm_buildid, cm_steps>>
  /\ UNCHANGED commitOthers

\* Line 1117: Error::checkpoint() ends the link if an error has been
\* recorded.
CommitCheckpoint ==
  /\ cm_pc = "checkpoint"
  /\ cm_pc' = IF cm_errors THEN "aborted" ELSE "padding"
  /\ UNCHANGED <<cm_rels, cm_i, cm_applied, cm_errors, cm_buildid, cm_steps>>
  /\ UNCHANGED commitOthers

\* Line 1121: clear_padding(filesize).
CommitClearPadding ==
  /\ cm_pc = "padding"
  /\ cm_steps' = Append(cm_steps, "clear_padding")
  /\ cm_pc' = "buildid"
  /\ UNCHANGED <<cm_rels, cm_i, cm_applied, cm_errors, cm_buildid>>
  /\ UNCHANGED commitOthers

\* Lines 1124-1127: the build-id is written if there is one.
CommitBuildId ==
  /\ cm_pc = "buildid"
  /\ cm_steps' = IF cm_buildid THEN Append(cm_steps, "write_buildid")
                 ELSE cm_steps
  /\ cm_pc' = "close"
  /\ UNCHANGED <<cm_rels, cm_i, cm_applied, cm_errors, cm_buildid>>
  /\ UNCHANGED commitOthers

\* Line 1129: file->close() commits the output file.
CommitClose ==
  /\ cm_pc = "close"
  /\ cm_steps' = Append(cm_steps, "close")
  /\ cm_pc' = "closed"
  /\ UNCHANGED <<cm_rels, cm_i, cm_applied, cm_errors, cm_buildid>>
  /\ UNCHANGED commitOthers

\* Line 1113: the output file is open and no chunk has been copied.
CommitInit ==
  /\ cm_rels \in [CommitChunks -> SeqsUpTo(CommitRelTypes, MaxCommitRels)]
  /\ cm_i = [c \in CommitChunks |-> 0]
  /\ cm_applied = {}
  /\ cm_errors = FALSE
  /\ cm_buildid \in BOOLEAN
  /\ cm_steps = <<>>
  /\ cm_pc = "copy"
  /\ IdleBut("commit")

CommitNext ==
  \/ \E c \in CommitChunks : CommitCopyTurn(c)
  \/ CommitCopyReturn
  \/ CommitCheckpoint
  \/ CommitClearPadding
  \/ CommitBuildId
  \/ CommitClose

SpecCommit == CommitInit /\ [][CommitNext]_vars

\* The relocations of type R_X86_64_SIZE32, which copy_buf does not know.
CommitUnknown ==
  {<<c, k>> \in CommitChunks \X (1..MaxCommitRels) :
     k <= Len(cm_rels[c]) /\ cm_rels[c][k] = "R_X86_64_SIZE32"}

MaxAgreeRels == 3

AgreeRelas ==
  [r_type : {"R_X86_64_TLSGD", "R_X86_64_TLSLD", "R_X86_64_64"},
   r_sym : {1}]
  \cup [r_type : {"R_X86_64_PLT32"}, r_sym : {2}]

\* GotSection::add_tlsgd_symbol(sym) of mold.h: the symbol is given the
\* next slots of .got.
add_tlsgd_symbol(idx, s, got) == [idx EXCEPT ![s] = got]

\* Line 467: out::got->add_tlsld() is called without the symbol; the
\* tlsld_idx of the symbol is what it was.
add_tlsld(idx, s, got) == idx

\* Lines 138-213 of scan_relocations: one turn of the loop.
AgreeScanTurn ==
  /\ ag_pc = "scan"
  /\ ag_i <= Len(ag_rels)
  /\ LET rel == ag_rels[ag_i]
         turn == ScanRelocation(rel, ag_sym[rel.r_sym])
     IN /\ ag_needs' = [ag_needs EXCEPT ![rel.r_sym] = @ \cup turn.needs]
        /\ ag_i' = IF turn.skip THEN ag_i + 2 ELSE ag_i + 1
  /\ ag_scanned' = ag_scanned \cup {ag_i}
  /\ UNCHANGED <<ag_rels, ag_sym, ag_tlsgd_idx, ag_tlsld_idx, ag_got,
                 ag_applied, ag_pc>>
  /\ UNCHANGED agreeOthers

\* Lines 138 and 411-417: the loop ends; no error has been recorded.
AgreeScanReturn ==
  /\ ag_pc = "scan"
  /\ ag_i > Len(ag_rels)
  /\ ag_pc' = "assign"
  /\ UNCHANGED <<ag_rels, ag_sym, ag_needs, ag_tlsgd_idx, ag_tlsld_idx,
                 ag_got, ag_i, ag_scanned, ag_applied>>
  /\ UNCHANGED agreeOthers

\* Lines 446-467 of scan_rels: the TLS slots of the symbols with flags.
AgreeAssign ==
  /\ ag_pc = "assign"
  /\ LET gd == "tlsgd" \in SlotsOf(ag_needs[1])
         ld == "tlsld" \in SlotsOf(ag_needs[1])
     IN /\ ag_tlsgd_idx' =
             IF gd THEN add_tlsgd_symbol(ag_tlsgd_idx, 1, ag_got)
             ELSE ag_tlsgd_idx
        /\ ag_tlsld_idx' =
             IF ld THEN add_tlsld(ag_tlsld_idx, 1,
                                  ag_got + (IF gd THEN 2 ELSE 0))
             ELSE ag_tlsld_idx
        /\ ag_got' = ag_got + (IF gd THEN 2 ELSE 0) + (IF ld THEN 2 ELSE 0)
  /\ ag_i' = 1
  /\ ag_pc' = "copy"
  /\ UNCHANGED <<ag_rels, ag_sym, ag_needs, ag_scanned, ag_applied>>
  /\ UNCHANGED agreeOthers

\* Lines 20-123 of copy_buf: one turn of the loop.
AgreeCopyTurn ==
  /\ ag_pc = "copy"
  /\ ag_i <= Len(ag_rels)
  /\ LET rel == ag_rels[ag_i]
         sym == [file_null |-> FALSE, has_plt |-> FALSE,
                 has_tlsgd |-> ag_tlsgd_idx[rel.r_sym] # -1,
                 has_tlsld |-> ag_tlsld_idx[rel.r_sym] # -1]
         turn == CopyRelocation(rel.r_type, ag_i,
                                [k \in 0..(BufSize - 1) |-> 0], sym,
                                CHOOSE env \in CopyEnvs : TRUE, FALSE)
     IN ag_i' = IF turn.skip THEN ag_i + 2 ELSE ag_i + 1
  /\ ag_applied' = ag_applied \cup {ag_i}
  /\ UNCHANGED <<ag_rels, ag_sym, ag_needs, ag_tlsgd_idx, ag_tlsld_idx,
                 ag_got, ag_scanned, ag_pc>>
  /\ UNCHANGED agreeOthers

\* Line 20: i < rels.size() is false.
AgreeCopyReturn ==
  /\ ag_pc = "copy"
  /\ ag_i > Len(ag_rels)
  /\ ag_pc' = "done"
  /\ UNCHANGED <<ag_rels, ag_sym, ag_needs, ag_tlsgd_idx, ag_tlsld_idx,
                 ag_got, ag_i, ag_scanned, ag_applied>>
  /\ UNCHANGED agreeOthers

\* scan_relocations is entered for the section: no flag is set and no slot
\* is assigned.
AgreeInit ==
  /\ ag_rels \in SeqsUpTo(AgreeRelas, MaxAgreeRels)
  /\ TlsPairsWellFormed(ag_rels)
  /\ ag_sym \in [ScanSyms ->
                   [file_null : {FALSE}, is_placeholder : {FALSE},
                    is_imported : BOOLEAN, type : {"STT_OBJECT", "STT_FUNC"}]]
  /\ ag_sym[1].type = "STT_OBJECT"
  /\ ag_sym[2] = ImportedFunction
  /\ ag_needs = [s \in ScanSyms |-> {}]
  /\ ag_tlsgd_idx = [s \in ScanSyms |-> -1]
  /\ ag_tlsld_idx = [s \in ScanSyms |-> -1]
  /\ ag_got \in {0, 1}
  /\ ag_i = 1
  /\ ag_scanned = {}
  /\ ag_applied = {}
  /\ ag_pc = "scan"
  /\ IdleBut("agree")

AgreeNext ==
  \/ AgreeScanTurn
  \/ AgreeScanReturn
  \/ AgreeAssign
  \/ AgreeCopyTurn
  \/ AgreeCopyReturn

SpecAgree == AgreeInit /\ [][AgreeNext]_vars

\* C31: when copy_buf has returned, the relocations it has looked at are
\* those scan_relocations has looked at: copy_buf passed over the
\* relocation after a TLSGD or TLSLD exactly when scan_relocations did.
C31_ScanAndCopyAgree == ag_pc = "done" => ag_applied = ag_scanned

====
